---- MODULE Spec2Model ----
(***************************************************************************)
(* Model of utils::FormatString::format (include/utils/detail/string.tpp). *)
(* A FormatString holds the template text with the placeholders stripped   *)
(* (m_format) and, per placeholder, the offset at which its value is to be *)
(* inserted.  format(args...) splices argument texts into m_format and     *)
(* drops the placeholders it formatted.                                    *)
(*                                                                         *)
(* Indices (argument indices, specification indices, positions) keep the   *)
(* 0-based values of the code; sequences are indexed with index + 1.       *)
(***************************************************************************)
EXTENDS Integers, Sequences, FiniteSets, TLC

\* ---------------------------------------------------------------- bounds
MaxTokens == 3        \* literal characters plus placeholders of a template
MaxArgs == 3          \* arguments passed over all format calls of a run
MaxCalls == 2         \* format calls on one template
FieldWidth == 2       \* the width used by the template's 'width=' specifier
MaxNames == 3         \* names passed to one call of Specification::one_of
MaxDigits == 9        \* the largest 'digits' specifier of an IntegerFormatter
MaxGroupSize == 4     \* the largest 'group_size' specifier
MaxWidth == 6         \* the 'width' specifier of an IntegerFormatter, when given
MaxGarbage == 2       \* the largest value a missing return statement leaves
MaxSpecifiers == 2    \* specifiers of a flat specification handed to parse
MaxGroups == 3        \* formatting groups of a specification handed to parse
MaxElements == 2      \* elements of a std::unordered_map

\* ---------------------------------------------------------------- helpers
Max(a, b) == IF a >= b THEN a ELSE b

Min(a, b) == IF a <= b THEN a ELSE b

RECURSIVE Repeat(_, _)
Repeat(c, n) == IF n <= 0 THEN << >> ELSE <<c>> \o Repeat(c, n - 1)

SeqsUpTo(S, n) == UNION { [1..k -> S] : k \in 0..n }

\* std::string::insert(pos, text)
Insert(s, pos, text) == SubSeq(s, 1, pos) \o text \o SubSeq(s, pos + 1, Len(s))

\* std::string::substr(start, length)
Substr(s, start, length) == SubSeq(s, start + 1, Min(start + length, Len(s)))

NUL == "\\0"

\* ---------------------------------------------------------------- data
\* Identifier (tagged union: Auto, Position(index), Name(text))
AutoId == [type |-> "Auto", position |-> 0, name |-> << >>]

PositionId(k) == [type |-> "Position", position |-> k, name |-> << >>]

NameId(n) == [type |-> "Name", position |-> 0, name |-> n]

\* Specification: a flat specifier list (here: with or without 'width') or a
\* list of formatting groups
SpecDefault == [type |-> "SpecifierList", width |-> 0]

SpecWidth == [type |-> "SpecifierList", width |-> FieldWidth]

SpecGroups == [type |-> "FormattingGroupList", width |-> 0]

\* Arguments.  kind "to": the type's Formatter has reserve/format_to (a
\* std::string, formatted by StringFormatter); "fmt": a Formatter with format
\* only; "none": a Formatter with parse only.
\* Names are character sequences.
Plain(v) == [named |-> FALSE, name |-> << >>, kind |-> "to", value |-> v]

Named(n, v) == [named |-> TRUE, name |-> n, kind |-> "to", value |-> v]

FormatOnly(v) == [named |-> FALSE, name |-> << >>, kind |-> "fmt", value |-> v]

ParseOnly == [named |-> FALSE, name |-> << >>, kind |-> "none", value |-> << >>]

NameX == <<"x">>

NameY == <<"y">>

NameReserved == <<"_", "_", "r">>

ArgValues ==
    { Plain(<<"a">>), Plain(<<"b", "c">>),
      Named(NameX, <<"d">>), Named(NameY, <<"e", "f">>),
      Named(NameReserved, <<"g">>),
      FormatOnly(<<"u">>), ParseOnly }

\* ---------------------------------------------------------------- formatters
\* std::numeric_limits<std::size_t>::max(), the start of a formatter that has
\* not written yet
Uninitialized == 0 - 1

\* detail::PlaceholderFormatter<T>: the Formatter<T> (its parsed width) plus
\* the cached span
PlaceholderFormatter(spec_id) ==
    [length |-> 0, specification_index |-> spec_id, start |-> Uninitialized,
     width |-> 0]

initialized(formatter) == formatter.start # Uninitialized

\* StringFormatter<T>::parse rejects a formatting group list; the Formatters
\* of the two user-defined kinds accept every specification
ParseThrows(arg, spec) == arg.kind = "to" /\ spec.type = "FormattingGroupList"

\* StringFormatter<T>::parse: the 'width' specifier
Formatter_parse(formatter, spec) == [formatter EXCEPT !.width = spec.width]

\* detail::apply_justification with the default (left) justification and the
\* default fill character: the value starts at offset 0 and the rest of the
\* field is filled
apply_justification(length, capacity) == Repeat(" ", capacity - length)

\* StringFormatter<T>::format_to(value, nullptr), which reserve returns
Formatter_reserve(formatter, arg) == Max(Len(arg.value), formatter.width)

\* StringFormatter<T>::format_to(value, &context): the characters written
Formatter_format_to(formatter, arg) ==
    arg.value
        \o apply_justification(Len(arg.value), Formatter_reserve(formatter, arg))

\* Formatter<T>::format of a type that has no reserve/format_to
Formatter_format(formatter, arg) == arg.value

\* m_format.insert(write_position, length, '\0') followed by format_to on
\* the context { length, &m_format[write_position] }
WriteInto(length, text) ==
    [k \in 1..length |-> IF k <= Len(text) THEN text[k] ELSE NUL]

\* ---------------------------------------------------------------- template
\* A template is written as a sequence of tokens: literal characters and
\* placeholders {identifier:specification}.
Lit(c) == [lit |-> TRUE, ch |-> c, id |-> AutoId, spec |-> SpecDefault]

Ph(id, spec) == [lit |-> FALSE, ch |-> "", id |-> id, spec |-> spec]

IndexIn(table, v) == CHOOSE i \in 1..Len(table) : table[i] = v

Contains(table, v) == \E i \in 1..Len(table) : table[i] = v

AddUnique(table, v) == IF Contains(table, v) THEN table ELSE Append(table, v)

\* FormatString::parse: m_format is the text without the placeholders, each
\* placeholder records where its value goes and the indices of its
\* identifier and specification in the two tables
RECURSIVE parse(_, _, _)
parse(tokens, i, fs) ==
    IF i > Len(tokens) THEN fs
    ELSE LET t == tokens[i] IN
         IF t.lit
         THEN parse(tokens, i + 1, [fs EXCEPT !.m_format = Append(@, t.ch)])
         ELSE LET ids == AddUnique(fs.m_identifiers, t.id)
                  specs == AddUnique(fs.m_specifications, t.spec)
                  placeholder ==
                      [identifier_index |-> IndexIn(ids, t.id) - 1,
                       specification_index |-> IndexIn(specs, t.spec) - 1,
                       position |-> Len(fs.m_format),
                       formatted |-> FALSE]
              IN parse(tokens, i + 1,
                       [fs EXCEPT !.m_identifiers = ids,
                                  !.m_specifications = specs,
                                  !.m_placeholders = Append(@, placeholder)])

EmptyFormatString ==
    [m_format |-> << >>, m_placeholders |-> << >>,
     m_identifiers |-> << >>, m_specifications |-> << >>]

\* FormatString::FormatString(fmt, source)
FormatString(tokens) == parse(tokens, 1, EmptyFormatString)

\* ---------------------------------------------------------------- errors
NoError == [kind |-> "none", reason |-> "", position |-> 0, first |-> 0]

\* "invalid argument at position {} - named arguments are not allowed in
\* format strings that only contain auto-numbered placeholders"
NamedInAuto(index) ==
    [kind |-> "InvalidArgument", reason |-> "named argument in auto-numbered",
     position |-> index, first |-> 0]

\* "invalid argument at position {} - arguments for positional placeholders
\* must come before arguments for named placeholders"
PositionalAfterNamed(index) ==
    [kind |-> "InvalidArgument", reason |-> "positional after named",
     position |-> index, first |-> 0]

\* "invalid argument at position {} - named arguments must be unique
\* (argument for placeholder '{}' first encountered at position {})"
DuplicateNamedArgument(j, i) ==
    [kind |-> "DuplicateNamedArgument", reason |-> "named arguments must be unique",
     position |-> j, first |-> i]

\* thrown by Formatter<T>::parse
WrongSpecificationType ==
    [kind |-> "WrongSpecificationType", reason |-> "must be a list of specifiers",
     position |-> 0, first |-> 0]

\* "custom Formatter<T> type must provide (at least) a format(...) function"
MissingFormatFunction ==
    [kind |-> "MissingFormatFunction", reason |-> "no format function",
     position |-> 0, first |-> 0]

\* ---------------------------------------------------------------- format
\* The state of one format call: the members it changes and its locals.
\* 'processed' is m_placeholders as the two loops leave it, before the erase.
Begin(fs) ==
    [m_format |-> fs.m_format, m_placeholders |-> fs.m_placeholders,
     status |-> "ok", error |-> NoError,
     inserted_placeholder_offset |-> 0,
     formatters |-> << >>, placeholder_indices |-> << >>,
     parsed |-> 0, warnings |-> 0, processed |-> fs.m_placeholders]

Throw(st, error) == [st EXCEPT !.status = "error", !.error = error]

\* m_placeholders[i]; beyond the end of the vector the read is undefined and
\* yields whatever the memory holds
PlaceholderAt(placeholders, i, garbage) ==
    IF i <= Len(placeholders) THEN placeholders[i] ELSE garbage

\* placeholder.formatted = true (a write beyond the end of the vector does
\* not change the vector)
MarkFormatted(placeholders, i) ==
    IF i <= Len(placeholders)
    THEN [placeholders EXCEPT ![i].formatted = TRUE]
    ELSE placeholders

\* mutant: the offset of the texts already inserted is left out
WritePosition_NoOffset(placeholder, inserted_placeholder_offset) ==
    placeholder.position

\* write_position = placeholder.position + inserted_placeholder_offset
WritePosition(placeholder, inserted_placeholder_offset) ==
    placeholder.position + inserted_placeholder_offset

\* The check of the auto-numbered branch: the index of the first
\* NamedArgument<T> of the pack, Len(args) if there is none
FirstNamedArgument(args) ==
    IF \E i \in 1..Len(args) : args[i].named
    THEN (CHOOSE i \in 1..Len(args) :
              args[i].named /\ \A k \in 1..(i - 1) : ~args[k].named) - 1
    ELSE Len(args)

\* "Initialize formatters" of the auto-numbered branch: formatter i is parsed
\* with the specification of placeholder i
RECURSIVE AutoInitialize(_, _, _, _, _)
AutoInitialize(st, specs, args, garbage, i) ==
    IF i > Len(args) \/ st.status # "ok" THEN st
    ELSE LET placeholder == PlaceholderAt(st.m_placeholders, i, garbage)
             spec == specs[placeholder.specification_index + 1]
             arg == args[i]
             parsed == Formatter_parse(PlaceholderFormatter(0), spec)
             formatter ==
                 IF arg.kind = "to"
                 THEN [parsed EXCEPT !.length = Formatter_reserve(parsed, arg)]
                 ELSE parsed
         IN IF ParseThrows(arg, spec)
            THEN Throw([st EXCEPT !.parsed = @ + 1], WrongSpecificationType)
            ELSE AutoInitialize(
                     [st EXCEPT !.parsed = @ + 1,
                                !.formatters = Append(@, formatter)],
                     specs, args, garbage, i + 1)

\* mutant: the offset also counts a terminator behind each text
AdvanceOffset_WithTerminator(inserted_placeholder_offset, length) ==
    inserted_placeholder_offset + length + 1

\* inserted_placeholder_offset += length
AdvanceOffset(inserted_placeholder_offset, length) ==
    inserted_placeholder_offset + length

\* "Format placeholders" of the auto-numbered branch
RECURSIVE AutoFormat(_, _, _, _)
AutoFormat(st, args, garbage, i) ==
    IF i > Len(args) \/ st.status # "ok" THEN st
    ELSE LET placeholder == PlaceholderAt(st.m_placeholders, i, garbage)
             write_position ==
                 WritePosition(placeholder, st.inserted_placeholder_offset)
             formatter == st.formatters[i]
             arg == args[i]
             text ==
                 IF arg.kind = "to"
                 THEN WriteInto(formatter.length, Formatter_format_to(formatter, arg))
                 ELSE Formatter_format(formatter, arg)
         IN IF arg.kind = "none"
            THEN Throw(st, MissingFormatFunction)
            ELSE AutoFormat(
                     [st EXCEPT
                          !.m_format = Insert(@, write_position, text),
                          !.inserted_placeholder_offset = AdvanceOffset(@, Len(text)),
                          !.warnings = @ + (IF arg.kind = "fmt" THEN 1 ELSE 0),
                          !.m_placeholders = MarkFormatted(@, i)],
                     args, garbage, i + 1)

\* mutant: the remaining placeholders keep their positions
OffsetRemaining_Skipped(st, argument_count) == st

\* "Offset any remaining placeholders that were not formatted"
OffsetRemaining(st, argument_count) ==
    [st EXCEPT !.m_placeholders =
        [i \in 1..Len(@) |->
            IF i > argument_count
            THEN [@[i] EXCEPT !.position = @ + st.inserted_placeholder_offset]
            ELSE @[i]]]

AutoRun(st, specs, args, garbage) ==
    LET ready == AutoInitialize(st, specs, args, garbage, 1)
        done == AutoFormat(ready, args, garbage, 1)
    IN IF done.status = "ok" THEN OffsetRemaining(done, Len(args)) ELSE done

\* mutant: the NamedArgument check runs when the loops reach the argument
AutoBranch_CheckWhileFormatting(st, specs, args, garbage) ==
    LET index == FirstNamedArgument(args)
    IN IF index < Len(args)
       THEN Throw(AutoRun(st, specs, SubSeq(args, 1, index), garbage),
                  NamedInAuto(index))
       ELSE AutoRun(st, specs, args, garbage)

\* The auto-numbered branch of format
AutoBranch(st, specs, args, garbage) ==
    LET index == FirstNamedArgument(args)
    IN IF index < Len(args)
       THEN Throw(st, NamedInAuto(index))
       ELSE AutoRun(st, specs, args, garbage)

\* mutant: positional_arguments_parsed is never set
FirstPositionalAfterNamed_FlagNeverSet(args) == Len(args)

\* The first check of the positional/named branch: the index of the first
\* plain argument that follows a NamedArgument<T>, Len(args) if there is none
FirstPositionalAfterNamed(args) ==
    LET late == { j \in 1..Len(args) :
                      ~args[j].named /\ \E k \in 1..(j - 1) : args[k].named }
    IN IF late = {} THEN Len(args)
       ELSE (CHOOSE j \in late : \A k \in late : j <= k) - 1

\* positional_argument_count once the first check has passed
PositionalArgumentCount(args) ==
    Cardinality({ i \in 1..Len(args) : ~args[i].named })

\* mutant: the inner loop looks at the next argument only
DuplicatePairs_AdjacentOnly(args, positional_argument_count) ==
    { pair \in (0..(Len(args) - 1)) \X (0..(Len(args) - 1)) :
          /\ positional_argument_count <= pair[1]
          /\ pair[2] = pair[1] + 1
          /\ args[pair[1] + 1].named
          /\ args[pair[2] + 1].named
          /\ args[pair[1] + 1].name = args[pair[2] + 1].name }

\* The second check: the pairs i < j of NamedArgument<T> with the same name,
\* in the order the two nested loops visit them
DuplicatePairs(args, positional_argument_count) ==
    { pair \in (0..(Len(args) - 1)) \X (0..(Len(args) - 1)) :
          /\ positional_argument_count <= pair[1]
          /\ pair[1] < pair[2]
          /\ args[pair[1] + 1].named
          /\ args[pair[2] + 1].named
          /\ args[pair[1] + 1].name = args[pair[2] + 1].name }

FirstDuplicatePair(pairs) ==
    CHOOSE p \in pairs :
        \A q \in pairs : p[1] < q[1] \/ (p[1] = q[1] /\ p[2] <= q[2])

\* The argument a placeholder's identifier refers to; Len(args) when no
\* such argument was passed
ResolveArgument(identifier, args, positional_argument_count) ==
    IF identifier.type = "Position"
    THEN IF identifier.position < positional_argument_count
         THEN identifier.position
         ELSE Len(args)
    ELSE LET matches ==
                 { k \in positional_argument_count..(Len(args) - 1) :
                       args[k + 1].named /\ args[k + 1].name = identifier.name }
         IN IF matches = {} THEN Len(args)
            ELSE CHOOSE k \in matches : \A m \in matches : m <= k

\* placeholder_indices.resize(placeholder_count) followed by one
\* emplace_back() per placeholder: the resolved indices land behind
\* placeholder_count value-initialized entries
PlaceholderIndices(placeholders, identifiers, args, positional_argument_count) ==
    [i \in 1..Len(placeholders) |-> [argument_index |-> 0, formatter_index |-> 0]]
        \o [i \in 1..Len(placeholders) |->
               [argument_index |->
                    ResolveArgument(identifiers[placeholders[i].identifier_index + 1],
                                    args, positional_argument_count),
                formatter_index |-> 0]]

\* "Initialize formatters" of the positional/named branch: one
\* PlaceholderFormatter per argument and specification index
RECURSIVE PositionalInitialize(_, _, _, _)
PositionalInitialize(st, specs, args, i) ==
    IF i > Len(st.m_placeholders) \/ st.status # "ok" THEN st
    ELSE LET indices == st.placeholder_indices[i] IN
         IF indices.argument_index = Len(args)
         THEN PositionalInitialize(st, specs, args, i + 1)
         ELSE LET specification_index == st.m_placeholders[i].specification_index
                  spec == specs[specification_index + 1]
                  a == indices.argument_index + 1
                  arg == args[a]
                  placeholder_formatters == st.formatters[a]
                  found == { k \in 1..Len(placeholder_formatters) :
                                 placeholder_formatters[k].specification_index
                                     = specification_index }
                  parsed == Formatter_parse(PlaceholderFormatter(specification_index), spec)
                  formatter ==
                      IF arg.kind = "to"
                      THEN [parsed EXCEPT !.length = Formatter_reserve(parsed, arg)]
                      ELSE parsed
              IN IF found # {}
                 THEN PositionalInitialize(
                          [st EXCEPT !.placeholder_indices[i].formatter_index =
                                (CHOOSE k \in found : \A m \in found : k <= m) - 1],
                          specs, args, i + 1)
                 ELSE IF ParseThrows(arg, spec)
                 THEN Throw([st EXCEPT !.parsed = @ + 1], WrongSpecificationType)
                 ELSE PositionalInitialize(
                          [st EXCEPT !.placeholder_indices[i].formatter_index =
                                         Len(placeholder_formatters),
                                     !.formatters[a] = Append(@, formatter),
                                     !.parsed = @ + 1],
                          specs, args, i + 1)

\* mutant: the cached span starts at the placeholder's recorded position
FormatterStart_RecordedPosition(placeholder, write_position) == placeholder.position

\* formatter.start = write_position
FormatterStart(placeholder, write_position) == write_position

\* One iteration of "Format placeholders" of the positional/named branch
PositionalStep(st, args, i) ==
    LET indices == st.placeholder_indices[i]
        placeholder == st.m_placeholders[i]
    IN
    IF indices.argument_index = Len(args)
    THEN [st EXCEPT !.m_placeholders[i].position =
                        @ + st.inserted_placeholder_offset]
    ELSE LET a == indices.argument_index + 1
             f == indices.formatter_index + 1
             arg == args[a]
             formatter == st.formatters[a][f]
             write_position ==
                 WritePosition(placeholder, st.inserted_placeholder_offset)
             cached == Substr(st.m_format, formatter.start, formatter.length)
             text ==
                 IF initialized(formatter) THEN cached
                 ELSE IF arg.kind = "to"
                 THEN WriteInto(formatter.length,
                                Formatter_format_to(formatter, arg))
                 ELSE Formatter_format(formatter, arg)
             inserted ==
                 IF arg.kind = "to" /\ formatter.length = 0 THEN << >> ELSE text
             length ==
                 IF arg.kind = "fmt" /\ ~initialized(formatter)
                 THEN Len(text)
                 ELSE formatter.length
         IN IF arg.kind = "none"
            THEN Throw(st, MissingFormatFunction)
            ELSE [st EXCEPT
                      !.m_format = Insert(@, write_position, inserted),
                      !.formatters[a][f].length = length,
                      !.formatters[a][f].start =
                          FormatterStart(placeholder, write_position),
                      !.inserted_placeholder_offset = AdvanceOffset(@, length),
                      !.warnings = @ + (IF arg.kind = "fmt" THEN 1 ELSE 0),
                      !.m_placeholders[i].formatted = TRUE]

\* "Format placeholders" of the positional/named branch
RECURSIVE PositionalFormat(_, _, _)
PositionalFormat(st, args, i) ==
    IF i > Len(st.m_placeholders) \/ st.status # "ok" THEN st
    ELSE PositionalFormat(PositionalStep(st, args, i), args, i + 1)

\* The call state when "Format placeholders" begins
PositionalReady(st, identifiers, specs, args) ==
    LET positional_argument_count == PositionalArgumentCount(args)
        start ==
            [st EXCEPT
                 !.placeholder_indices =
                     PlaceholderIndices(st.m_placeholders, identifiers, args,
                                        positional_argument_count),
                 !.formatters = [a \in 1..Len(args) |-> << >>]]
    IN PositionalInitialize(start, specs, args, 1)

PositionalRun(st, identifiers, specs, args) ==
    PositionalFormat(PositionalReady(st, identifiers, specs, args), args, 1)

\* mutant: a placeholder without an argument is an error
PositionalBranch_RequiresResolved(st, identifiers, specs, args) ==
    LET late == FirstPositionalAfterNamed(args)
        pairs == DuplicatePairs(args, PositionalArgumentCount(args))
        missing ==
            { i \in 1..Len(st.m_placeholders) :
                  ResolveArgument(
                      identifiers[st.m_placeholders[i].identifier_index + 1],
                      args, PositionalArgumentCount(args)) = Len(args) }
    IN IF late < Len(args)
       THEN Throw(st, PositionalAfterNamed(late))
       ELSE IF pairs # {}
       THEN Throw(st, DuplicateNamedArgument(FirstDuplicatePair(pairs)[2],
                                             FirstDuplicatePair(pairs)[1]))
       ELSE IF missing # {}
       THEN Throw(st, [kind |-> "MissingArgument", reason |-> "no argument",
                       position |-> 0, first |-> 0])
       ELSE PositionalRun(st, identifiers, specs, args)

\* The positional/named branch of format
PositionalBranch(st, identifiers, specs, args) ==
    LET late == FirstPositionalAfterNamed(args)
        pairs == DuplicatePairs(args, PositionalArgumentCount(args))
    IN IF late < Len(args)
       THEN Throw(st, PositionalAfterNamed(late))
       ELSE IF pairs # {}
       THEN Throw(st, DuplicateNamedArgument(FirstDuplicatePair(pairs)[2],
                                             FirstDuplicatePair(pairs)[1]))
       ELSE PositionalRun(st, identifiers, specs, args)

\* mutant: the formatted placeholders are not erased
RemoveFormatted_NothingErased(placeholders) == placeholders

\* "Remove placeholders that have been formatted": std::remove_if + erase
RECURSIVE RemoveFormatted(_)
RemoveFormatted(placeholders) ==
    IF placeholders = << >> THEN << >>
    ELSE IF Head(placeholders).formatted
    THEN RemoveFormatted(Tail(placeholders))
    ELSE <<Head(placeholders)>> \o RemoveFormatted(Tail(placeholders))

\* mutant: the argument checks also run for a template without placeholders
FormatString_format_AlwaysChecks(fs, args, garbage) ==
    LET st == Begin(fs)
        run ==
            IF fs.m_placeholders = << >>
            THEN PositionalBranch(st, fs.m_identifiers, fs.m_specifications, args)
            ELSE IF fs.m_identifiers[fs.m_placeholders[1].identifier_index + 1].type
                        = "Auto"
            THEN AutoBranch(st, fs.m_specifications, args, garbage)
            ELSE PositionalBranch(st, fs.m_identifiers, fs.m_specifications, args)
    IN IF Len(args) = 0 THEN st
       ELSE IF run.status = "ok"
       THEN [run EXCEPT !.m_placeholders = RemoveFormatted(@),
                        !.processed = run.m_placeholders]
       ELSE [run EXCEPT !.processed = run.m_placeholders]

\* FormatString::format(args...): the state the call leaves behind.  An
\* exception leaves the members as they are at the throw.
FormatString_format(fs, args, garbage) ==
    LET st == Begin(fs)
        run ==
            IF fs.m_placeholders = << >> THEN st
            ELSE IF fs.m_identifiers[fs.m_placeholders[1].identifier_index + 1].type
                        = "Auto"
            THEN AutoBranch(st, fs.m_specifications, args, garbage)
            ELSE PositionalBranch(st, fs.m_identifiers, fs.m_specifications, args)
    IN IF Len(args) = 0 THEN st
       ELSE IF run.status = "ok"
       THEN [run EXCEPT !.m_placeholders = RemoveFormatted(@),
                        !.processed = run.m_placeholders]
       ELSE [run EXCEPT !.processed = run.m_placeholders]

\* ---------------------------------------------------------------- specifiers
\* std::tolower
tolower(c) ==
    LET UpperCase ==
            <<"A", "B", "C", "D", "E", "F", "G", "H", "I", "J", "K", "L", "M",
              "N", "O", "P", "Q", "R", "S", "T", "U", "V", "W", "X", "Y", "Z">>
        LowerCase ==
            <<"a", "b", "c", "d", "e", "f", "g", "h", "i", "j", "k", "l", "m",
              "n", "o", "p", "q", "r", "s", "t", "u", "v", "w", "x", "y", "z">>
    IN IF \E k \in 1..26 : UpperCase[k] = c
       THEN LowerCase[CHOOSE k \in 1..26 : UpperCase[k] = c]
       ELSE c

\* icasecmp(first, second)
icasecmp(first, second) ==
    /\ Len(first) = Len(second)
    /\ \A i \in 1..Len(first) : tolower(first[i]) = tolower(second[i])

\* Specification::Specifier
Specifier(name, value) == [name |-> name, value |-> value]

\* The outcome of an access to a Specification: a reference to a specifier
\* or an exception
Found(specifier) == [status |-> "ok", error |-> "none", specifier |-> specifier]

Failed(error) ==
    [status |-> "error", error |-> error, specifier |-> Specifier(<< >>, << >>)]

\* Specification::has_specifier(name): names are case-insensitive
has_specifier(specifiers, name) ==
    \E k \in 1..Len(specifiers) : icasecmp(specifiers[k].name, name)

\* Specification::get_specifier(name)
get_specifier(specifiers, name) ==
    IF has_specifier(specifiers, name)
    THEN Found(specifiers[CHOOSE k \in 1..Len(specifiers) :
                              /\ icasecmp(specifiers[k].name, name)
                              /\ \A m \in 1..(k - 1) :
                                     ~icasecmp(specifiers[m].name, name)])
    ELSE Failed("MissingSpecifier")

\* Specification::one_of(first, rest...), names = <<first, rest...>>
one_of(specifiers, names) ==
    LET argument_count == Len(names)
        valid == { i \in 1..argument_count : has_specifier(specifiers, names[i]) }
        index == CHOOSE i \in valid : \A k \in valid : i <= k
        valid_specifier_count == Cardinality(valid)
    IN IF argument_count - 1 = 1
       THEN get_specifier(specifiers, names[1])
       ELSE IF valid_specifier_count = 0 THEN Failed("NoSpecifierFound")
       ELSE IF valid_specifier_count > 1 THEN Failed("AmbiguousSpecifier")
       ELSE get_specifier(specifiers, names[index])

\* ---------------------------------------------------------------- integers
\* IntegerFormatter<T> with T = std::int8_t
Bits == 8

RECURSIVE Pow2(_)
Pow2(k) == IF k <= 0 THEN 1 ELSE 2 * Pow2(k - 1)

\* (value >> k) & 1 on the two's complement of value (arithmetic shift)
Bit(value, k) ==
    IF k >= Bits THEN (IF value < 0 THEN 1 ELSE 0)
    ELSE ((value % Pow2(Bits)) \div Pow2(k)) % 2

\* std::floor(std::log2(value)) + 1u for value > 0
RECURSIVE BitLength(_)
BitLength(value) == IF value <= 1 THEN 1 ELSE 1 + BitLength(value \div 2)

\* 2^64 modulo m, for size_t differences that wrap around
RECURSIVE PowMod(_, _)
PowMod(k, m) == IF k = 0 THEN 1 % m ELSE (2 * PowMod(k - 1, m)) % m

\* (a - b) % m computed in std::size_t
WrappedMod(difference, m) ==
    IF difference >= 0 THEN difference % m
    ELSE (PowMod(64, m) + (difference % m)) % m

\* The fields IntegerFormatter<T>::parse sets.  digits and width 0: not given;
\* use_separator_character "unset" and group_size -1: empty std::optional.
IntegerFormatter(representation, digits, use_separator_character, group_size, use_base_prefix, width) ==
    [representation |-> representation, digits |-> digits,
     use_separator_character |-> use_separator_character,
     group_size |-> group_size, use_base_prefix |-> use_base_prefix,
     width |-> width]

\* mutant: a negative value gets the digits of its magnitude
NaturalCount_MagnitudeWidth(value, indefinite, bits_per_digit) ==
    IF value = 0 THEN [huge |-> indefinite, count |-> 0]
    ELSE [huge |-> FALSE,
          count |-> ((BitLength(IF value < 0 THEN 0 - value ELSE value) - 1)
                         \div bits_per_digit) + 1]

\* num_characters before 'digits' is applied.  For value 0 the conversion of
\* std::log2(0) = -inf to std::size_t is undefined: 'indefinite' tells whether
\* the build yields 2^63 (huge) or saturates to 0.
NaturalCount(value, indefinite, bits_per_digit) ==
    IF value < 0 THEN [huge |-> FALSE, count |-> Bits \div bits_per_digit]
    ELSE IF value = 0 THEN [huge |-> indefinite, count |-> 0]
    ELSE [huge |-> FALSE,
          count |-> ((BitLength(value) - 1) \div bits_per_digit) + 1]

\* "The number of characters can be overridden by a user-specified 'digits'"
ApplyDigits(natural, digits) ==
    IF digits # 0
    THEN IF natural.huge \/ natural.count >= digits
         THEN [num_characters |-> digits, num_padding_characters |-> 0]
         ELSE [num_characters |-> natural.count,
               num_padding_characters |-> digits - natural.count]
    ELSE [num_characters |-> natural.count, num_padding_characters |-> 0]

\* _group_size and _use_separator_character
GroupSize(formatter) ==
    IF formatter.use_separator_character = "true"
    THEN (IF formatter.group_size = 0 - 1 THEN 4 ELSE formatter.group_size)
    ELSE 0

UseSeparator(formatter) ==
    formatter.use_separator_character = "true" /\ GroupSize(formatter) # 0

\* num_separator_characters
SeparatorCount(formatter, num_characters) ==
    IF UseSeparator(formatter)
    THEN (num_characters \div GroupSize(formatter))
             - (IF num_characters # 0 /\ num_characters % GroupSize(formatter) = 0
                THEN 1 ELSE 0)
    ELSE 0

\* capacity
Capacity(formatter, n) ==
    n.num_characters + n.num_padding_characters
        + SeparatorCount(formatter, n.num_characters)
        + (IF formatter.use_base_prefix THEN 2 ELSE 0)

\* The loops that write the padding and then the digits, with a separator
\* before the character at index 'current' when current is not 0 and
\* (num_characters - current) % _group_size == 0
RECURSIVE WithSeparators(_, _, _, _)
WithSeparators(chars, current, num_characters, group_size) ==
    IF chars = << >> THEN << >>
    ELSE (IF current # 0 /\ WrappedMod(num_characters - current, group_size) = 0
          THEN <<"'">> ELSE << >>)
             \o <<Head(chars)>>
             \o WithSeparators(Tail(chars), current + 1, num_characters, group_size)

\* What to_binary / to_hexadecimal write from write_position on
Written(formatter, prefix, padding, digits_written, num_characters) ==
    (IF formatter.use_base_prefix THEN <<"0", prefix>> ELSE << >>)
        \o (IF UseSeparator(formatter)
            THEN WithSeparators(padding \o digits_written, 0, num_characters,
                                GroupSize(formatter))
            ELSE padding \o digits_written)

\* IntegerFormatter<T>::to_binary(value, context): the returned length, the
\* capacity handed to apply_justification and the characters written
to_binary(formatter, value, indefinite) ==
    LET natural == NaturalCount(value, indefinite, 1)
        n == ApplyDigits(natural, formatter.digits)
        buffer == [i \in 1..n.num_characters |->
                       IF Bit(value, n.num_characters - i) = 1 THEN "1" ELSE "0"]
        padding == Repeat(IF value < 0 THEN "1" ELSE "0", n.num_padding_characters)
    IN [overflow |-> natural.huge /\ formatter.digits = 0,
        capacity |-> Capacity(formatter, n),
        length |-> Max(Capacity(formatter, n), formatter.width),
        written |-> Written(formatter, "b", padding, buffer, n.num_characters)]

\* detail::nibble_to_hexadecimal
nibble_to_hexadecimal(nibble) ==
    <<"0", "1", "2", "3", "4", "5", "6", "7", "8", "9", "a", "b", "c", "d", "e", "f">>[
        8 * nibble[1] + 4 * nibble[2] + 2 * nibble[3] + nibble[4] + 1]

\* IntegerFormatter<T>::to_hexadecimal(value, context)
to_hexadecimal(formatter, value, indefinite) ==
    LET natural == NaturalCount(value, indefinite, 4)
        n == ApplyDigits(natural, formatter.digits)
        binary == NaturalCount(value, indefinite, 1)
        num_characters_binary == IF binary.huge THEN 0 ELSE binary.count
        buffer == [i \in 1..num_characters_binary |->
                       Bit(value, num_characters_binary - i)]
        remainder == num_characters_binary % 4
        num_groups == (num_characters_binary \div 4) + (IF remainder # 0 THEN 1 ELSE 0)
        num_padding_characters_binary == IF remainder # 0 THEN 4 - remainder ELSE 0
        bits == Repeat(IF value < 0 THEN 1 ELSE 0, num_padding_characters_binary)
                    \o buffer
        groups == [g \in 1..num_groups |->
                       nibble_to_hexadecimal(SubSeq(bits, 4 * g - 3, 4 * g))]
        padding == Repeat(IF value < 0 THEN "F" ELSE "0", n.num_padding_characters)
    IN [overflow |-> natural.huge /\ formatter.digits = 0,
        capacity |-> Capacity(formatter, n),
        length |-> Max(Capacity(formatter, n), formatter.width),
        written |-> Written(formatter, "x", padding, groups, n.num_characters)]

\* IntegerFormatter<T>::reserve(value).  The Decimal case leaves the function
\* without a return statement: the caller receives whatever the register
\* holds ('garbage').
IntegerFormatter_reserve(formatter, value, indefinite, garbage) ==
    CASE formatter.representation = "Decimal" ->
             [overflow |-> FALSE, length |-> garbage]
      [] formatter.representation = "Binary" ->
             [overflow |-> to_binary(formatter, value, indefinite).overflow,
              length |-> to_binary(formatter, value, indefinite).length]
      [] formatter.representation = "Hexadecimal" ->
             [overflow |-> to_hexadecimal(formatter, value, indefinite).overflow,
              length |-> to_hexadecimal(formatter, value, indefinite).length]

\* IntegerFormatter<T>::format_to(value, context) with a context of 'length'
\* characters: the characters written from write_position 0 on (left
\* justification) and the number of fill characters apply_justification
\* writes behind 'capacity'
IntegerFormatter_format_to(formatter, value, indefinite, length) ==
    CASE formatter.representation = "Decimal" ->
             [written |-> << >>, filled |-> 0]
      [] formatter.representation = "Binary" ->
             [written |-> to_binary(formatter, value, indefinite).written,
              filled |-> Len(apply_justification(
                                 to_binary(formatter, value, indefinite).capacity,
                                 length))]
      [] formatter.representation = "Hexadecimal" ->
             [written |-> to_hexadecimal(formatter, value, indefinite).written,
              filled |-> Len(apply_justification(
                                 to_hexadecimal(formatter, value, indefinite).capacity,
                                 length))]

\* ---------------------------------------------------------------- parse
\* Specifications as the Formatters' parse functions receive them: a flat
\* list of specifiers or a list of formatting groups.  Names and values are
\* character sequences.
SpecifierListOf(specifiers) ==
    [type |-> "SpecifierList", specifiers |-> specifiers, groups |-> << >>]

FormattingGroupListOf(groups) ==
    [type |-> "FormattingGroupList", specifiers |-> << >>, groups |-> groups]

\* Specification::size()
size(spec) == Len(spec.groups)

\* Specification::get_formatting_group(index)
get_formatting_group(spec, index) == spec.groups[index + 1]

\* Specification::has_specifier(specifiers...): any of the names
has_specifier_of(specifiers, names) ==
    \E i \in 1..Len(names) : has_specifier(specifiers, names[i])

\* spec.get_specifier(name) for one name, spec.one_of(names...) for several
Lookup(specifiers, names) ==
    IF Len(names) = 1
    THEN get_specifier(specifiers, names[1])
    ELSE one_of(specifiers, names)

\* trim(value): the value without the blanks around it
trim(value) ==
    LET RECURSIVE trim_front(_)
        trim_front(v) ==
            IF v # << >> /\ Head(v) = " " THEN trim_front(Tail(v)) ELSE v
        RECURSIVE trim_back(_)
        trim_back(v) ==
            IF v # << >> /\ v[Len(v)] = " "
            THEN trim_back(SubSeq(v, 1, Len(v) - 1))
            ELSE v
    IN trim_back(trim_front(value))

IsDigit(c) == c \in {"0", "1", "2", "3", "4", "5", "6", "7", "8", "9"}

\* from_string(value, out): reads the decimal digits value starts with and
\* returns how many characters it read; 'out' is assigned when it read one
RECURSIVE from_string(_, _, _)
from_string(value, read, out) ==
    LET DigitValue(c) ==
            CHOOSE d \in 0..9 :
                <<"0", "1", "2", "3", "4", "5", "6", "7", "8", "9">>[d + 1] = c
    IN IF read < Len(value) /\ IsDigit(value[read + 1])
       THEN from_string(value, read + 1, 10 * out + DigitValue(value[read + 1]))
       ELSE [num_characters_read |-> read, out |-> out, assigned |-> read > 0]

\* The state of one parse call: the Formatter's fields, the warnings logged,
\* whether an exception left the call and whether it read an indeterminate
\* value (an uninitialized local, a character outside the value)
BeginParse(formatter) ==
    [status |-> "ok", error |-> "none", warnings |-> 0, undefined |-> FALSE,
     formatter |-> formatter]

ParseThrow(st, error) == [st EXCEPT !.status = "error", !.error = error]

\* logging::warning(...)
Warn(st) == [st EXCEPT !.warnings = @ + 1]

Assign(st, field, value) ==
    [st EXCEPT !.formatter = [@ EXCEPT ![field] = value]]

\* if (spec.has_specifier(names...)) { value = trim(...); if (icasecmp(value,
\* spelling)) field = ...; else if ...; else logging::warning(...); }
\* 'spellings' lists the accepted spellings with the value each one sets
EnumSpecifier(st, specifiers, names, field, spellings) ==
    IF st.status # "ok" \/ ~has_specifier_of(specifiers, names) THEN st
    ELSE LET found == Lookup(specifiers, names)
             value == trim(found.specifier.value)
             matches == { k \in 1..Len(spellings) : icasecmp(value, spellings[k][1]) }
         IN IF found.status # "ok" THEN ParseThrow(st, found.error)
            ELSE IF matches # {}
            THEN Assign(st, field,
                        spellings[CHOOSE k \in matches : \A m \in matches : k <= m][2])
            ELSE Warn(st)

\* unsigned w; num_characters_read = from_string(value, w);
\* if (num_characters_read < value.length()) logging::warning(...);
\* else field = w;
UnsignedSpecifier(st, specifiers, names, field, garbage) ==
    IF st.status # "ok" \/ ~has_specifier_of(specifiers, names) THEN st
    ELSE LET found == Lookup(specifiers, names)
             value == trim(found.specifier.value)
             result == from_string(value, 0, 0)
         IN IF found.status # "ok" THEN ParseThrow(st, found.error)
            ELSE IF result.num_characters_read < Len(value) THEN Warn(st)
            ELSE IF result.assigned THEN Assign(st, field, result.out)
            ELSE [Assign(st, field, garbage) EXCEPT !.undefined = TRUE]

\* if (value.length() > 1u) logging::warning(...); else field = value[0];
\* value[0] of an empty value is a read behind the value
CharacterSpecifier(st, specifiers, names, field, garbage) ==
    IF st.status # "ok" \/ ~has_specifier_of(specifiers, names) THEN st
    ELSE LET found == Lookup(specifiers, names)
             value == trim(found.specifier.value)
         IN IF found.status # "ok" THEN ParseThrow(st, found.error)
            ELSE IF Len(value) > 1 THEN Warn(st)
            ELSE IF Len(value) = 1 THEN Assign(st, field, value[1])
            ELSE [Assign(st, field, garbage.character) EXCEPT !.undefined = TRUE]

\* the separator block of FloatingPointFormatter<T>::parse: the value is
\* checked and not stored
SeparatorSpecifier(st, specifiers, names) ==
    IF st.status # "ok" \/ ~has_specifier_of(specifiers, names) THEN st
    ELSE LET found == Lookup(specifiers, names)
             value == trim(found.specifier.value)
         IN IF found.status # "ok" THEN ParseThrow(st, found.error)
            ELSE IF Len(value) > 1 THEN Warn(st)
            ELSE st

\* The specifier names and values the parse functions compare with, as
\* character sequences
Text ==
    [left |->
         <<"l", "e", "f", "t">>,
     right |->
         <<"r", "i", "g", "h", "t">>,
     center |->
         <<"c", "e", "n", "t", "e", "r">>,
     negative__only |->
         <<"n", "e", "g", "a", "t", "i", "v", "e", " ", "o", "n", "l", "y">>,
     negative_only |->
         <<"n", "e", "g", "a", "t", "i", "v", "e", "_", "o", "n", "l", "y">>,
     negativeonly |->
         <<"n", "e", "g", "a", "t", "i", "v", "e", "o", "n", "l", "y">>,
     aligned |->
         <<"a", "l", "i", "g", "n", "e", "d">>,
     both |->
         <<"b", "o", "t", "h">>,
     true |->
         <<"t", "r", "u", "e">>,
     false |->
         <<"f", "a", "l", "s", "e">>,
     justification |->
         <<"j", "u", "s", "t", "i", "f", "i", "c", "a", "t", "i", "o", "n">>,
     justify |->
         <<"j", "u", "s", "t", "i", "f", "y">>,
     alignment |->
         <<"a", "l", "i", "g", "n", "m", "e", "n", "t">>,
     align |->
         <<"a", "l", "i", "g", "n">>,
     fill |->
         <<"f", "i", "l", "l">>,
     fill_character |->
         <<"f", "i", "l", "l", "_", "c", "h", "a", "r", "a", "c", "t", "e", "r">>,
     fillcharacter |->
         <<"f", "i", "l", "l", "c", "h", "a", "r", "a", "c", "t", "e", "r">>,
     representation |->
         <<"r", "e", "p", "r", "e", "s", "e", "n", "t", "a", "t", "i", "o", "n">>,
     decimal |->
         <<"d", "e", "c", "i", "m", "a", "l">>,
     binary |->
         <<"b", "i", "n", "a", "r", "y">>,
     hexadecimal |->
         <<"h", "e", "x", "a", "d", "e", "c", "i", "m", "a", "l">>,
     sign |->
         <<"s", "i", "g", "n">>,
     width |->
         <<"w", "i", "d", "t", "h">>,
     use_separator |->
         <<"u", "s", "e", "_", "s", "e", "p", "a", "r", "a", "t", "o", "r">>,
     useseparator |->
         <<"u", "s", "e", "s", "e", "p", "a", "r", "a", "t", "o", "r">>,
     use_separator_character |->
         <<"u", "s", "e", "_", "s", "e", "p", "a", "r", "a", "t", "o", "r", "_", "c", "h", "a", "r", "a", "c", "t", "e", "r">>,
     useseparatorcharacter |->
         <<"u", "s", "e", "s", "e", "p", "a", "r", "a", "t", "o", "r", "c", "h", "a", "r", "a", "c", "t", "e", "r">>,
     group_size |->
         <<"g", "r", "o", "u", "p", "_", "s", "i", "z", "e">>,
     groupsize |->
         <<"g", "r", "o", "u", "p", "s", "i", "z", "e">>,
     use_base_prefix |->
         <<"u", "s", "e", "_", "b", "a", "s", "e", "_", "p", "r", "e", "f", "i", "x">>,
     usebaseprefix |->
         <<"u", "s", "e", "b", "a", "s", "e", "p", "r", "e", "f", "i", "x">>,
     digits |->
         <<"d", "i", "g", "i", "t", "s">>,
     fixed |->
         <<"f", "i", "x", "e", "d">>,
     scientific |->
         <<"s", "c", "i", "e", "n", "t", "i", "f", "i", "c">>,
     precision |->
         <<"p", "r", "e", "c", "i", "s", "i", "o", "n">>,
     separator |->
         <<"s", "e", "p", "a", "r", "a", "t", "o", "r">>,
     separator_character |->
         <<"s", "e", "p", "a", "r", "a", "t", "o", "r", "_", "c", "h", "a", "r", "a", "c", "t", "e", "r">>,
     separatorcharacter |->
         <<"s", "e", "p", "a", "r", "a", "t", "o", "r", "c", "h", "a", "r", "a", "c", "t", "e", "r">>]

Justifications ==
    << <<Text.left, "Left">>, <<Text.right, "Right">>, <<Text.center, "Center">> >>

Signs ==
    << <<Text.negative__only, "NegativeOnly">>, <<Text.negative_only, "NegativeOnly">>,
       <<Text.negativeonly, "NegativeOnly">>, <<Text.aligned, "Aligned">>,
       <<Text.both, "Both">> >>

Booleans(yes, no) ==
    << <<Text.true, yes>>, <<<<"1">>, yes>>, <<Text.false, no>>, <<<<"0">>, no>> >>

JustificationNames == <<Text.justification, Text.justify, Text.alignment, Text.align>>

FillNames == <<Text.fill, Text.fill_character, Text.fillcharacter>>

\* The fields of the three Formatters as their constructors leave them
IntegerFormatterFields ==
    [representation |-> "Decimal", sign |-> "NegativeOnly",
     justification |-> "Left", width |-> 0, fill_character |-> " ",
     use_separator_character |-> "unset", group_size |-> 0 - 1,
     use_base_prefix |-> FALSE, digits |-> 0]

FloatingPointFormatterFields ==
    [representation |-> "Fixed", sign |-> "NegativeOnly",
     justification |-> "Left", width |-> 0, fill_character |-> " ",
     precision |-> 0]

StringFormatterFields ==
    [justification |-> "Left", width |-> 0, fill_character |-> " "]

\* One block 'if (spec.has_specifier(names...)) { ... }' of a parse function:
\* the names it looks up, the field it sets and how it reads the value
EnumBlock(names, field, spellings) ==
    [category |-> "enum", names |-> names, field |-> field, spellings |-> spellings]

UnsignedBlock(names, field) ==
    [category |-> "unsigned", names |-> names, field |-> field, spellings |-> << >>]

CharacterBlock(names, field) ==
    [category |-> "character", names |-> names, field |-> field,
     spellings |-> << >>]

SeparatorBlock(names) ==
    [category |-> "separator", names |-> names, field |-> "", spellings |-> << >>]

ParseBlock(st, specifiers, block, garbage) ==
    CASE block.category = "enum" ->
             EnumSpecifier(st, specifiers, block.names, block.field, block.spellings)
      [] block.category = "unsigned" ->
             UnsignedSpecifier(st, specifiers, block.names, block.field,
                               garbage.unsigned)
      [] block.category = "character" ->
             CharacterSpecifier(st, specifiers, block.names, block.field, garbage)
      [] block.category = "separator" ->
             SeparatorSpecifier(st, specifiers, block.names)

\* The blocks of a parse function, one after the other
RECURSIVE ParseBlocks(_, _, _, _, _)
ParseBlocks(st, specifiers, blocks, garbage, i) ==
    IF i > Len(blocks) THEN st
    ELSE ParseBlocks(ParseBlock(st, specifiers, blocks[i], garbage),
                     specifiers, blocks, garbage, i + 1)

\* The blocks of IntegerFormatter<T>::parse
IntegerBlocks ==
    <<EnumBlock(<<Text.representation>>, "representation",
                << <<Text.decimal, "Decimal">>, <<Text.binary, "Binary">>,
                   <<Text.hexadecimal, "Hexadecimal">> >>),
      EnumBlock(<<Text.sign>>, "sign", Signs),
      EnumBlock(JustificationNames, "justification", Justifications),
      UnsignedBlock(<<Text.width>>, "width"),
      CharacterBlock(FillNames, "fill_character"),
      EnumBlock(<<Text.use_separator, Text.useseparator,
                  Text.use_separator_character, Text.useseparatorcharacter>>,
                "use_separator_character", Booleans("true", "false")),
      UnsignedBlock(<<Text.group_size, Text.groupsize>>, "group_size"),
      EnumBlock(<<Text.use_base_prefix, Text.usebaseprefix>>, "use_base_prefix",
                Booleans(TRUE, FALSE)),
      UnsignedBlock(<<Text.digits>>, "digits")>>

\* The blocks of FloatingPointFormatter<T>::parse
FloatingPointBlocks ==
    <<EnumBlock(<<Text.representation>>, "representation",
                << <<Text.fixed, "Fixed">>, <<Text.scientific, "Scientific">> >>),
      EnumBlock(<<Text.sign>>, "sign", Signs),
      EnumBlock(JustificationNames, "justification", Justifications),
      UnsignedBlock(<<Text.width>>, "width"),
      UnsignedBlock(<<Text.precision>>, "precision"),
      CharacterBlock(FillNames, "fill_character"),
      SeparatorBlock(<<Text.separator, Text.separator_character,
                       Text.separatorcharacter>>)>>

\* The blocks of StringFormatter<T>::parse
StringBlocks ==
    <<EnumBlock(JustificationNames, "justification", Justifications),
      UnsignedBlock(<<Text.width>>, "width"),
      CharacterBlock(FillNames, "fill_character")>>

\* The ASSERT macro on spec.type() == SpecifierList: a specification of
\* another type fails the call
RequireSpecifierList(st, spec) ==
    IF spec.type = "SpecifierList" THEN st
    ELSE ParseThrow(st, "WrongSpecificationType")

\* IntegerFormatter<T>::parse(spec)
IntegerFormatter_parse(spec, garbage) ==
    LET checked == RequireSpecifierList(BeginParse(IntegerFormatterFields), spec)
    IN IF checked.status # "ok" THEN checked
       ELSE ParseBlocks(checked, spec.specifiers, IntegerBlocks, garbage, 1)

\* FloatingPointFormatter<T>::parse(spec)
FloatingPointFormatter_parse(spec, garbage) ==
    IF spec.type = "FormattingGroupList"
    THEN ParseThrow(BeginParse(FloatingPointFormatterFields),
                    "WrongSpecificationType")
    ELSE ParseBlocks(BeginParse(FloatingPointFormatterFields), spec.specifiers,
                     FloatingPointBlocks, garbage, 1)

\* StringFormatter<T>::parse(spec)
StringFormatter_parse(spec, garbage) ==
    IF spec.type = "FormattingGroupList"
    THEN ParseThrow(BeginParse(StringFormatterFields), "WrongSpecificationType")
    ELSE ParseBlocks(BeginParse(StringFormatterFields), spec.specifiers,
                     StringBlocks, garbage, 1)

\* ---------------------------------------------------------------- maps
\* Formatter<std::unordered_map<K, V>> with K and V each std::string
\* ("String", formatted by StringFormatter) or std::int8_t ("Integer",
\* formatted by IntegerFormatter)
ElementFields(type) ==
    IF type = "String" THEN StringFormatterFields ELSE IntegerFormatterFields

\* Formatter<K>::parse / Formatter<V>::parse
Element_parse(type, spec, garbage) ==
    IF type = "String"
    THEN StringFormatter_parse(spec, garbage)
    ELSE IntegerFormatter_parse(spec, garbage)

\* What parse leaves behind: the outcome and the two element Formatters
MapParsed(st, key_formatter, value_formatter) ==
    [status |-> st.status, error |-> st.error, warnings |-> st.warnings,
     undefined |-> st.undefined, formatter |-> st.formatter,
     key_formatter |-> key_formatter, value_formatter |-> value_formatter]

\* Formatter<std::unordered_map<K, V>>::parse(spec)
UnorderedMapFormatter_parse(types, spec, garbage) ==
    LET begin == BeginParse(StringFormatterFields)
        key == Element_parse(types.key, get_formatting_group(spec, 0), garbage)
        value == Element_parse(types.value, get_formatting_group(spec, 1), garbage)
    IN IF spec.type = "FormattingGroupList" /\ size(spec) >= 2
       THEN IF key.status # "ok"
            THEN MapParsed(key, ElementFields(types.key), ElementFields(types.value))
            ELSE IF value.status # "ok"
            THEN MapParsed([value EXCEPT !.warnings = @ + key.warnings],
                           key.formatter, ElementFields(types.value))
            ELSE MapParsed([value EXCEPT !.warnings = @ + key.warnings,
                                         !.undefined = @ \/ key.undefined],
                           key.formatter, value.formatter)
       ELSE MapParsed(begin, ElementFields(types.key), ElementFields(types.value))

\* m_key_formatter.reserve(element) / m_value_formatter.reserve(element)
Element_reserve(type, formatter, element, garbage) ==
    IF type = "String"
    THEN Formatter_reserve(formatter, [value |-> element])
    ELSE IntegerFormatter_reserve(formatter, element, FALSE, garbage).length

\* format_to(element, context.slice(offset, length)): the characters in the
\* slice afterwards (result.resize left them '\0')
Element_format_to(type, formatter, element, length) ==
    IF type = "String"
    THEN WriteInto(length, Formatter_format_to(formatter, [value |-> element]))
    ELSE LET context == IntegerFormatter_format_to(formatter, element, FALSE, length)
         IN WriteInto(length, context.written \o Repeat(" ", context.filled))

\* The loop over the elements: quote, key, quote, colon, blank, quote, value,
\* quote, comma, blank
RECURSIVE FormatElements(_, _, _, _, _)
FormatElements(types, parsed, value, garbage, i) ==
    IF i > Len(value) THEN << >>
    ELSE LET key_length == Element_reserve(types.key, parsed.key_formatter,
                                           value[i].first, garbage.key)
             value_length == Element_reserve(types.value, parsed.value_formatter,
                                             value[i].second, garbage.value)
         IN <<"'">>
                \o Element_format_to(types.key, parsed.key_formatter,
                                     value[i].first, key_length)
                \o <<"'", ":", " ", "'">>
                \o Element_format_to(types.value, parsed.value_formatter,
                                     value[i].second, value_length)
                \o <<"'", ",", " ">>
                \o FormatElements(types, parsed, value, garbage, i + 1)

\* Formatter<std::unordered_map<K, V>>::format(value), value in the order the
\* container iterates it
UnorderedMapFormatter_format(types, parsed, value, garbage) ==
    IF value = << >> THEN <<"{", " ", "}">>
    ELSE LET elements == FormatElements(types, parsed, value, garbage, 1)
         IN <<"{", " ">> \o SubSeq(elements, 1, Len(elements) - 2) \o <<" ", "}">>

\* ---------------------------------------------------------------- state
VARIABLES
    tmpl,               \* the tokens the FormatString was constructed from
    m_format,           \* FormatString::m_format
    m_placeholders,     \* FormatString::m_placeholders
    m_identifiers,      \* FormatString::m_identifiers
    m_specifications,   \* FormatString::m_specifications
    calls,              \* the format calls made so far, with their outcome
    m_specifiers,       \* the specifier list of a Specification
    access,             \* the last one_of call on it, with its outcome
    int_formatter,      \* an IntegerFormatter<T> as parse left it
    int_value,          \* the integer it formats
    int_indefinite,     \* what the build makes of the undefined conversion
    int_pc,             \* "parsed", "reserved" or "written"
    int_length,         \* what reserve returned
    int_context,        \* what format_to wrote into the context
    fmt_type,           \* the type a Formatter<T> is constructed for
    fmt_spec,           \* the Specification handed to its parse
    fmt_pc,             \* "constructed", "parsed" or "formatted"
    fmt_parsed,         \* the outcome of parse and the fields it left
    fmt_value,          \* the std::unordered_map handed to format
    fmt_output          \* what format returned

vars ==
    <<tmpl, m_format, m_placeholders, m_identifiers, m_specifications, calls,
      m_specifiers, access,
      int_formatter, int_value, int_indefinite, int_pc, int_length, int_context,
      fmt_type, fmt_spec, fmt_pc, fmt_parsed, fmt_value, fmt_output>>

formatterVars == <<fmt_type, fmt_spec, fmt_pc, fmt_parsed, fmt_value, fmt_output>>

integerVars ==
    <<int_formatter, int_value, int_indefinite, int_pc, int_length, int_context>>

\* IntegerFormatter<T> before parse has read a specifier
DefaultFormatter == IntegerFormatter("Decimal", 0, "unset", 0 - 1, FALSE, 0)

NoLength == [overflow |-> FALSE, length |-> 0]

NoContext == [written |-> << >>, filled |-> 0]

\* no integer is being formatted
NoIntegers ==
    /\ int_formatter = DefaultFormatter
    /\ int_value = 0
    /\ int_indefinite = FALSE
    /\ int_pc = "parsed"
    /\ int_length = NoLength
    /\ int_context = NoContext

\* no Formatter<T> is being parsed
NoType == [kind |-> "none", key |-> "none", value |-> "none"]

NotParsed == MapParsed(BeginParse(StringFormatterFields), StringFormatterFields,
                       StringFormatterFields)

NoFormatters ==
    /\ fmt_type = NoType
    /\ fmt_spec = SpecifierListOf(<< >>)
    /\ fmt_pc = "constructed"
    /\ fmt_parsed = NotParsed
    /\ fmt_value = << >>
    /\ fmt_output = << >>

\* no one_of call made
NoAccess == [names |-> << >>, outcome |-> Failed("none")]

Specifications == {SpecDefault, SpecWidth, SpecGroups}

AutoTokens == {Lit("-")} \cup { Ph(AutoId, s) : s \in Specifications }

\* {0}, {1:width=2}, {x}, {y}, {x:[...]}
StructuredTokens ==
    {Lit("-"), Ph(PositionId(0), SpecDefault), Ph(PositionId(1), SpecWidth),
     Ph(NameId(NameX), SpecDefault), Ph(NameId(NameY), SpecDefault),
     Ph(NameId(NameX), SpecGroups)}

\* Well-formed templates: the placeholders are all auto-numbered or all
\* positional/named
Templates ==
    SeqsUpTo(AutoTokens, MaxTokens) \cup SeqsUpTo(StructuredTokens, MaxTokens)

This ==
    [m_format |-> m_format, m_placeholders |-> m_placeholders,
     m_identifiers |-> m_identifiers, m_specifications |-> m_specifications]

IsAutoNumbered(fs) ==
    /\ fs.m_placeholders # << >>
    /\ fs.m_identifiers[fs.m_placeholders[1].identifier_index + 1].type = "Auto"

\* The auto-numbered loops read m_placeholders[i] for every i below the
\* argument count
Overruns(fs, args) ==
    /\ IsAutoNumbered(fs)
    /\ FirstNamedArgument(args) = Len(args)
    /\ Len(args) > Len(fs.m_placeholders)

NoGarbage ==
    [identifier_index |-> 0, specification_index |-> 0, position |-> 0,
     formatted |-> FALSE]

\* What a read beyond the end of m_placeholders may yield
GarbageSet(fs) ==
    { [identifier_index |-> 0, specification_index |-> s, position |-> p,
       formatted |-> b] :
          s \in 0..(Len(fs.m_specifications) - 1),
          p \in {0, Len(fs.m_format)},
          b \in {FALSE} }

RECURSIVE TotalArguments(_)
TotalArguments(cs) ==
    IF cs = << >> THEN 0 ELSE Len(Head(cs).args) + TotalArguments(Tail(cs))

CallRecord(fs, args, run, status, undefined) ==
    [args |-> args, status |-> status, error |-> run.error,
     pre_format |-> fs.m_format, pre_placeholders |-> fs.m_placeholders,
     parsed |-> run.parsed, warnings |-> run.warnings,
     formatters |-> run.formatters, processed |-> run.processed,
     inserted |-> run.inserted_placeholder_offset, undefined |-> undefined]

Init ==
    /\ tmpl \in Templates
    /\ m_format = FormatString(tmpl).m_format
    /\ m_placeholders = FormatString(tmpl).m_placeholders
    /\ m_identifiers = FormatString(tmpl).m_identifiers
    /\ m_specifications = FormatString(tmpl).m_specifications
    /\ calls = << >>
    /\ m_specifiers = << >>
    /\ access = NoAccess
    /\ NoIntegers
    /\ NoFormatters

\* One call of format on the template.  When the auto-numbered loops run
\* beyond the end of m_placeholders the behaviour is undefined: the call
\* either crashes or goes on with what the memory holds.
Format(args) ==
    /\ Len(calls) < MaxCalls
    /\ \E garbage \in (IF Overruns(This, args) THEN GarbageSet(This) ELSE {NoGarbage}),
          crash \in (IF Overruns(This, args) THEN BOOLEAN ELSE {FALSE}) :
          LET run == FormatString_format(This, args, garbage)
          IN IF crash
             THEN /\ garbage \in { g \in GarbageSet(This) :
                                     g.specification_index = 0 /\ g.position = 0 }
                  /\ calls' = Append(calls,
                                     CallRecord(This, args, Begin(This), "crash", TRUE))
                  /\ UNCHANGED <<m_format, m_placeholders>>
             ELSE /\ m_format' = run.m_format
                  /\ m_placeholders' = run.m_placeholders
                  /\ calls' = Append(calls,
                                     CallRecord(This, args, run, run.status,
                                                Overruns(This, args)))
    /\ UNCHANGED <<tmpl, m_identifiers, m_specifications, m_specifiers, access>>
    /\ UNCHANGED integerVars
    /\ UNCHANGED formatterVars

\* The argument lists still within the bounds of the run
ArgumentLists ==
    IF Len(calls) < MaxCalls
    THEN SeqsUpTo(ArgValues, MaxArgs - TotalArguments(calls))
    ELSE {}

Next == \E args \in ArgumentLists : Format(args)

Spec == Init /\ [][Next]_vars

\* ---------------------------------------------------------------- access
\* Specifier lists: any of width, fill and group_size (written w, f, g), each
\* at most once
SpecifierNames == {<<"w">>, <<"f">>, <<"g">>}

RECURSIVE SpecifierList(_)
SpecifierList(names) ==
    IF names = {} THEN << >>
    ELSE LET n == CHOOSE x \in names : TRUE
         IN <<Specifier(n, <<"v">> \o n)>> \o SpecifierList(names \ {n})

\* The names a caller asks for: the specifier names and an upper-case spelling
LookupNames == SpecifierNames \cup {<<"W">>}

NameLists ==
    { names \in SeqsUpTo(LookupNames, MaxNames) :
          /\ names # << >>
          /\ \A i, k \in 1..Len(names) : i # k => names[i] # names[k] }

InitAccess ==
    /\ tmpl = << >>
    /\ m_format = << >>
    /\ m_placeholders = << >>
    /\ m_identifiers = << >>
    /\ m_specifications = << >>
    /\ calls = << >>
    /\ m_specifiers \in { SpecifierList(names) : names \in SUBSET SpecifierNames }
    /\ access = NoAccess
    /\ NoIntegers
    /\ NoFormatters

\* One call of one_of on the specification
OneOf(names) ==
    /\ access' = [names |-> names, outcome |-> one_of(m_specifiers, names)]
    /\ UNCHANGED <<tmpl, m_format, m_placeholders, m_identifiers,
                   m_specifications, calls, m_specifiers>>
    /\ UNCHANGED integerVars
    /\ UNCHANGED formatterVars

NextAccess == \E names \in NameLists : OneOf(names)

SpecAccess == InitAccess /\ [][NextAccess]_vars

\* ---------------------------------------------------------------- integer
IntegerValues == {0 - 128, 0 - 5, 0 - 3, 0, 1, 5, 19, 100}

IntegerFormatters ==
    { IntegerFormatter(r, d, u, g, b, w) :
          r \in {"Decimal", "Binary", "Hexadecimal"},
          d \in 0..MaxDigits,
          u \in {"unset", "true", "false"},
          g \in (0 - 1)..MaxGroupSize,
          b \in BOOLEAN,
          w \in {0, MaxWidth} }

InitInteger ==
    /\ tmpl = << >>
    /\ m_format = << >>
    /\ m_placeholders = << >>
    /\ m_identifiers = << >>
    /\ m_specifications = << >>
    /\ calls = << >>
    /\ m_specifiers = << >>
    /\ access = NoAccess
    /\ int_formatter \in IntegerFormatters
    /\ int_value \in IntegerValues
    /\ int_indefinite \in (IF int_value = 0 THEN BOOLEAN ELSE {FALSE})
    /\ int_pc = "parsed"
    /\ int_length = NoLength
    /\ int_context = NoContext
    /\ NoFormatters

\* formatter.length = formatter.reserve(value)
IntegerReserve ==
    /\ int_pc = "parsed"
    /\ \E garbage \in (IF int_formatter.representation = "Decimal"
                       THEN 0..MaxGarbage ELSE {0}) :
           int_length' = IntegerFormatter_reserve(int_formatter, int_value,
                                                  int_indefinite, garbage)
    /\ int_pc' = "reserved"
    /\ UNCHANGED <<tmpl, m_format, m_placeholders, m_identifiers,
                   m_specifications, calls, m_specifiers, access>>
    /\ UNCHANGED <<int_formatter, int_value, int_indefinite, int_context>>
    /\ UNCHANGED formatterVars

\* if (length > 0u): insert length characters and format_to into them.  A
\* length beyond max_size() makes the insert throw.
IntegerFormatTo ==
    /\ int_pc = "reserved"
    /\ ~int_length.overflow
    /\ int_length.length > 0
    /\ int_context' = IntegerFormatter_format_to(int_formatter, int_value,
                                                 int_indefinite, int_length.length)
    /\ int_pc' = "written"
    /\ UNCHANGED <<tmpl, m_format, m_placeholders, m_identifiers,
                   m_specifications, calls, m_specifiers, access>>
    /\ UNCHANGED <<int_formatter, int_value, int_indefinite, int_length>>
    /\ UNCHANGED formatterVars

NextInteger == IntegerReserve \/ IntegerFormatTo

SpecInteger == InitInteger /\ [][NextInteger]_vars

\* ---------------------------------------------------------------- formatter
\* The names a flat specification is written with
SpecifierKeys ==
    {Text.representation, Text.sign, Text.justification, Text.width, Text.fill,
     Text.fill_character, Text.use_separator_character, Text.group_size,
     Text.groupsize, Text.use_base_prefix, Text.digits, Text.precision}

\* and the values: spellings the parse functions know, a number, a single
\* character, and values that are malformed, too long or empty
SpecifierValues ==
    {Text.binary, <<"L", "e", "f", "t">>, Text.true, <<" ", "1", "2", " ">>,
     <<"x">>, << >>}

FlatSpecifications ==
    { SpecifierListOf(specifiers) :
          specifiers \in
              { l \in SeqsUpTo({ Specifier(n, v) : n \in SpecifierKeys,
                                                   v \in SpecifierValues },
                               MaxSpecifiers) :
                    \A i, k \in 1..Len(l) : i # k => l[i].name # l[k].name } }

\* The formatting groups of a composite type's specification
Groups ==
    {SpecifierListOf(<< >>),
     SpecifierListOf(<<Specifier(Text.width, <<"2">>)>>),
     SpecifierListOf(<<Specifier(Text.width, <<"3">>)>>),
     SpecifierListOf(<<Specifier(Text.representation, Text.binary)>>)}

GroupSpecifications ==
    { FormattingGroupListOf(groups) : groups \in SeqsUpTo(Groups, MaxGroups) }

ScalarTypes ==
    { [kind |-> k, key |-> "none", value |-> "none"] :
          k \in {"Integer", "FloatingPoint", "String"} }

MapTypes ==
    { [kind |-> "UnorderedMap", key |-> k, value |-> v] :
          k \in {"String", "Integer"}, v \in {"String", "Integer"} }

\* the keys and values of a map
Elements(type) ==
    IF type = "String" THEN {<<"a">>, <<"b", "c">>} ELSE {5, 0 - 3}

\* std::unordered_map<K, V> values, in iteration order
Maps(types) ==
    { m \in SeqsUpTo([first : Elements(types.key), second : Elements(types.value)],
                     MaxElements) :
          \A i, k \in 1..Len(m) : i # k => m[i].first # m[k].first }

\* What an indeterminate read may yield
ParseGarbage ==
    { [unsigned |-> u, character |-> c] : u \in {0, MaxGarbage}, c \in {NUL, ","} }

InitFormatter ==
    /\ tmpl = << >>
    /\ m_format = << >>
    /\ m_placeholders = << >>
    /\ m_identifiers = << >>
    /\ m_specifications = << >>
    /\ calls = << >>
    /\ m_specifiers = << >>
    /\ access = NoAccess
    /\ NoIntegers
    /\ fmt_type \in ScalarTypes \cup MapTypes
    /\ fmt_spec \in
           (IF fmt_type.kind = "UnorderedMap"
            THEN GroupSpecifications
                     \cup {SpecifierListOf(<< >>),
                           SpecifierListOf(<<Specifier(Text.width, <<"2">>)>>)}
            ELSE FlatSpecifications
                     \cup { g \in GroupSpecifications : Len(g.groups) <= 1 })
    /\ fmt_value \in
           (IF fmt_type.kind = "UnorderedMap" THEN Maps(fmt_type) ELSE {<< >>})
    /\ fmt_pc = "constructed"
    /\ fmt_parsed = NotParsed
    /\ fmt_output = << >>

\* formatter.parse(spec)
Formatter_parse_of(type, spec, garbage) ==
    CASE type.kind = "Integer" ->
             MapParsed(IntegerFormatter_parse(spec, garbage),
                       StringFormatterFields, StringFormatterFields)
      [] type.kind = "FloatingPoint" ->
             MapParsed(FloatingPointFormatter_parse(spec, garbage),
                       StringFormatterFields, StringFormatterFields)
      [] type.kind = "String" ->
             MapParsed(StringFormatter_parse(spec, garbage),
                       StringFormatterFields, StringFormatterFields)
      [] type.kind = "UnorderedMap" ->
             UnorderedMapFormatter_parse(type, spec, garbage)

FormatterParse ==
    /\ fmt_pc = "constructed"
    /\ \E garbage \in ParseGarbage :
           fmt_parsed' = Formatter_parse_of(fmt_type, fmt_spec, garbage)
    /\ fmt_pc' = "parsed"
    /\ UNCHANGED <<tmpl, m_format, m_placeholders, m_identifiers,
                   m_specifications, calls, m_specifiers, access>>
    /\ UNCHANGED integerVars
    /\ UNCHANGED <<fmt_type, fmt_spec, fmt_value, fmt_output>>

\* What reserve of a decimal IntegerFormatter may return
ReserveGarbage(type, formatter) ==
    IF type = "Integer" /\ formatter.representation = "Decimal"
    THEN 0..MaxGarbage
    ELSE {0}

\* formatter.format(value) of the map Formatter
MapFormat ==
    /\ fmt_pc = "parsed"
    /\ fmt_type.kind = "UnorderedMap"
    /\ fmt_parsed.status = "ok"
    /\ \E k \in ReserveGarbage(fmt_type.key, fmt_parsed.key_formatter),
          v \in ReserveGarbage(fmt_type.value, fmt_parsed.value_formatter) :
           fmt_output' = UnorderedMapFormatter_format(
                             fmt_type, fmt_parsed, fmt_value,
                             [key |-> k, value |-> v])
    /\ fmt_pc' = "formatted"
    /\ UNCHANGED <<tmpl, m_format, m_placeholders, m_identifiers,
                   m_specifications, calls, m_specifiers, access>>
    /\ UNCHANGED integerVars
    /\ UNCHANGED <<fmt_type, fmt_spec, fmt_value, fmt_parsed>>

NextFormatter == FormatterParse \/ MapFormat

SpecFormatter == InitFormatter /\ [][NextFormatter]_vars

\* ---------------------------------------------------------------- properties
\* What the claims below are stated with.
Called == calls # << >>

Last == calls[Len(calls)]

Pre == [m_format |-> Last.pre_format, m_placeholders |-> Last.pre_placeholders,
        m_identifiers |-> m_identifiers, m_specifications |-> m_specifications]

PreAuto == Called /\ IsAutoNumbered(Pre)

PreStructured == Called /\ Pre.m_placeholders # << >> /\ ~IsAutoNumbered(Pre)

IdentifierOf(placeholder) == m_identifiers[placeholder.identifier_index + 1]

SpecificationOf(placeholder) == m_specifications[placeholder.specification_index + 1]

IsReservedName(name) == Len(name) >= 2 /\ name[1] = "_" /\ name[2] = "_"

PlainCount(args) == Cardinality({ k \in 1..Len(args) : ~args[k].named })

\* The text a value is rendered to under a specification: left-justified in a
\* field of at least 'width' characters
Rendered(arg, spec) ==
    IF arg.kind = "to"
    THEN arg.value \o Repeat(" ", spec.width - Len(arg.value))
    ELSE arg.value

\* The argument a placeholder stands for (1-based), 0 when the call supplies
\* none: the i-th argument for the i-th auto-numbered placeholder, the k-th
\* plain argument for {k}, the argument named n for {n}
Intended(placeholders, args, i) ==
    LET id == IdentifierOf(placeholders[i])
        named == { k \in 1..Len(args) : args[k].named /\ args[k].name = id.name }
    IN CASE id.type = "Auto" -> IF i <= Len(args) THEN i ELSE 0
         [] id.type = "Position" ->
                IF id.position < PlainCount(args) THEN id.position + 1 ELSE 0
         [] id.type = "Name" -> IF named = {} THEN 0 ELSE CHOOSE k \in named : TRUE

IntendedText(placeholders, args, i) ==
    IF Intended(placeholders, args, i) = 0 THEN << >>
    ELSE Rendered(args[Intended(placeholders, args, i)],
                  SpecificationOf(placeholders[i]))

\* The texts of the placeholders k, k+1, ... that sit at offset c, in order
RECURSIVE TextsAt(_, _, _, _)
TextsAt(placeholders, texts, c, k) ==
    IF k > Len(placeholders) THEN << >>
    ELSE (IF placeholders[k].position = c THEN texts[k] ELSE << >>)
             \o TextsAt(placeholders, texts, c, k + 1)

\* The text with every placeholder's text put at the placeholder's offset
RECURSIVE Spliced(_, _, _, _)
Spliced(text, placeholders, texts, c) ==
    IF c > Len(text) THEN << >>
    ELSE TextsAt(placeholders, texts, c, 1)
             \o (IF c < Len(text) THEN <<text[c + 1]>> ELSE << >>)
             \o Spliced(text, placeholders, texts, c + 1)

ExpectedText(args) ==
    Spliced(Pre.m_format, Pre.m_placeholders,
            [i \in 1..Len(Pre.m_placeholders) |->
                 IntendedText(Pre.m_placeholders, args, i)], 0)

\* The total length of the intended texts of the placeholders before i
RECURSIVE LengthBefore(_, _, _)
LengthBefore(placeholders, args, i) ==
    IF i <= 1 THEN 0
    ELSE LengthBefore(placeholders, args, i - 1)
             + Len(IntendedText(placeholders, args, i - 1))

\* The placeholders the call cannot resolve, each moved by the length of the
\* text put in before it
RECURSIVE ExpectedRemaining(_, _, _)
ExpectedRemaining(placeholders, args, i) ==
    IF i > Len(placeholders) THEN << >>
    ELSE (IF Intended(placeholders, args, i) = 0
          THEN <<[placeholders[i] EXCEPT
                      !.position = @ + LengthBefore(placeholders, args, i)]>>
          ELSE << >>)
             \o ExpectedRemaining(placeholders, args, i + 1)

\* Calls whose arguments all have a Formatter with format or format_to and
\* whose placeholders all carry a specifier list
AllFormattable(args) == \A k \in 1..Len(args) : args[k].kind # "none"

NoGroupSpecification(placeholders) ==
    \A i \in 1..Len(placeholders) :
        SpecificationOf(placeholders[i]).type = "SpecifierList"

\* ---------------------------------------------------------------- claims
\* C1: in a positional template formatted with p plain arguments, every
\* placeholder {k} with k < p is replaced by the text of the k-th argument,
\* also when a position is referenced more than once.
C1_PositionalArguments ==
    (/\ PreStructured
     /\ Last.args # << >>
     /\ \A k \in 1..Len(Last.args) : ~Last.args[k].named /\ Last.args[k].kind = "to"
     /\ \A i \in 1..Len(Pre.m_placeholders) :
            /\ IdentifierOf(Pre.m_placeholders[i]).type = "Position"
            /\ IdentifierOf(Pre.m_placeholders[i]).position < Len(Last.args))
    => /\ Last.status = "ok"
       /\ m_format = ExpectedText(Last.args)

\* C2: in a named template every placeholder {name} is replaced by the text
\* of the NamedArgument of that name, whatever the order of the arguments.
C2_NamedArguments ==
    (/\ PreStructured
     /\ Last.args # << >>
     /\ \A k \in 1..Len(Last.args) : Last.args[k].named /\ Last.args[k].kind = "to"
     /\ \A k, m \in 1..Len(Last.args) :
            k # m => Last.args[k].name # Last.args[m].name
     /\ NoGroupSpecification(Pre.m_placeholders)
     /\ \A i \in 1..Len(Pre.m_placeholders) :
            /\ IdentifierOf(Pre.m_placeholders[i]).type = "Name"
            /\ Intended(Pre.m_placeholders, Last.args, i) # 0)
    => /\ Last.status = "ok"
       /\ m_format = ExpectedText(Last.args)

\* C3: an auto-numbered template with n placeholders formatted with n plain
\* arguments: the i-th placeholder is replaced by the text of the i-th
\* argument, spliced at its recorded position plus the total length of the
\* texts spliced before it, and the literal text keeps its order and content.
C3_AutoNumbered ==
    (/\ PreAuto
     /\ Last.status = "ok"
     /\ Len(Last.args) = Len(Pre.m_placeholders)
     /\ \A k \in 1..Len(Last.args) : ~Last.args[k].named)
    => /\ m_format = ExpectedText(Last.args)
       /\ m_placeholders = << >>
       /\ \A i \in 1..Len(Pre.m_placeholders) :
              LET at == Pre.m_placeholders[i].position
                            + LengthBefore(Pre.m_placeholders, Last.args, i)
                  text == IntendedText(Pre.m_placeholders, Last.args, i)
              IN SubSeq(m_format, at + 1, at + Len(text)) = text

C3_Witness ==
    /\ PreAuto
    /\ Last.status = "ok"
    /\ Len(Last.args) = Len(Pre.m_placeholders)
    /\ Len(Last.args) >= 2
    /\ Pre.m_format # << >>
    /\ Pre.m_placeholders[1].position < Pre.m_placeholders[2].position
    /\ Last.args[1].value # Last.args[2].value
    /\ \A k \in 1..Len(Last.args) : ~Last.args[k].named

\* An argument list the checks of the branch accept: no NamedArgument for an
\* auto-numbered template; plain arguments first and no name twice otherwise
WellShaped(args) ==
    IF IsAutoNumbered(Pre)
    THEN \A k \in 1..Len(args) : ~args[k].named
    ELSE /\ \A k, m \in 1..Len(args) : (k < m /\ args[k].named) => args[m].named
         /\ \A k, m \in 1..Len(args) :
                (k < m /\ args[k].named) => args[k].name # args[m].name

\* C4: with fewer arguments than placeholders the call succeeds, formats only
\* the placeholders that resolve to a supplied argument, and keeps every
\* unresolved placeholder in the list, unformatted, with its position
\* advanced by the total length of the text inserted before it.
C4_FewerArguments ==
    (/\ Called
     /\ Len(Last.args) < Len(Pre.m_placeholders)
     /\ WellShaped(Last.args)
     /\ \A k \in 1..Len(Last.args) : Last.args[k].kind = "to"
     /\ NoGroupSpecification(Pre.m_placeholders))
    => /\ Last.status = "ok"
       /\ m_format = ExpectedText(Last.args)
       /\ m_placeholders = ExpectedRemaining(Pre.m_placeholders, Last.args, 1)

C4_AutoOnly == PreAuto => C4_FewerArguments

\* The template as constructed, and one format call on it
Constructed == FormatString(tmpl)

Once(args) == FormatString_format(Constructed, args, NoGarbage)

\* C5: for a template with n placeholders and arguments a1..an, format with
\* a1..ak (k < n) followed by format with the remaining arguments yields the
\* text that one call with a1..an yields.
C5_Incremental ==
    (/\ Len(calls) = 2
     /\ Len(calls[1].args) + Len(calls[2].args) = Len(Constructed.m_placeholders)
     /\ Len(calls[1].args) < Len(Constructed.m_placeholders)
     /\ calls[1].status = "ok"
     /\ calls[2].status = "ok"
     /\ Once(calls[1].args \o calls[2].args).status = "ok")
    => /\ m_format = Once(calls[1].args \o calls[2].args).m_format
       /\ m_placeholders = Once(calls[1].args \o calls[2].args).m_placeholders

C5_Witness ==
    /\ Len(calls) = 2
    /\ IsAutoNumbered(Constructed)
    /\ Len(calls[1].args) + Len(calls[2].args) = Len(Constructed.m_placeholders)
    /\ calls[1].args # << >>
    /\ calls[2].args # << >>
    /\ calls[1].status = "ok"
    /\ calls[2].status = "ok"
    /\ calls[1].args[1].value # << >>
    /\ Len(m_format) > Len(Constructed.m_format) + Len(calls[1].args[1].value)
    /\ Once(calls[1].args \o calls[2].args).status = "ok"

\* C6: a failed format call leaves the text buffer and the placeholder list
\* (positions and formatted flags) as they were before the call.
C6_AllOrNothing ==
    (Called /\ Last.status = "error" /\ ~Last.undefined)
    => /\ m_format = Last.pre_format
       /\ m_placeholders = Last.pre_placeholders

\* The argument-shape errors: a NamedArgument in an auto-numbered call, a
\* plain argument after a named one, a name passed twice
IsShapeError(call) ==
    /\ call.status = "error"
    /\ call.error.kind \in {"InvalidArgument", "DuplicateNamedArgument"}

\* C7: the argument-shape errors are raised before any Formatter is parsed
\* and before the text buffer or a placeholder is modified.
C7_ShapeErrorsFirst ==
    (Called /\ IsShapeError(Last))
    => /\ Last.parsed = 0
       /\ m_format = Last.pre_format
       /\ m_placeholders = Last.pre_placeholders

\* a shape error of a call whose first argument would have been formatted
C7_Witness ==
    /\ Called
    /\ IsShapeError(Last)
    /\ Last.error.position >= 1
    /\ Last.args[1].kind = "to"
    /\ Last.args[1].value # << >>
    /\ Last.pre_placeholders # << >>
    /\ NoGroupSpecification(Last.pre_placeholders)

\* C8: with an auto-numbered placeholder remaining, a call that passes a
\* NamedArgument with a non-reserved name fails with an invalid-argument
\* error that cites the position of such an argument.
C8_NamedInAutoNumbered ==
    (/\ PreAuto
     /\ \E k \in 1..Len(Last.args) :
            Last.args[k].named /\ ~IsReservedName(Last.args[k].name))
    => /\ Last.status = "error"
       /\ Last.error.kind = "InvalidArgument"
       /\ Last.error.position < Len(Last.args)
       /\ Last.args[Last.error.position + 1].named
       /\ ~IsReservedName(Last.args[Last.error.position + 1].name)

\* C9: a NamedArgument whose name begins with "__" is excluded from the
\* argument checks: passed to an auto-numbered template it does not fail
\* the call.
C9_ReservedNames ==
    (/\ PreAuto
     /\ \A k \in 1..Len(Last.args) :
            Last.args[k].named => IsReservedName(Last.args[k].name))
    => ~(Last.status = "error" /\ Last.error.kind = "InvalidArgument")

\* a plain argument after the first NamedArgument of the list
PlainAfterNamed(args, j) ==
    /\ j \in 1..Len(args)
    /\ ~args[j].named
    /\ \E k \in 1..(j - 1) : args[k].named

\* C10: for a positional/named template, format fails with the
\* invalid-argument error citing the argument's position if and only if a
\* plain argument appears after the first NamedArgument.
C10_PlainAfterNamed ==
    PreStructured
    => /\ (Last.status = "error" /\ Last.error.kind = "InvalidArgument")
              <=> \E j \in 1..Len(Last.args) : PlainAfterNamed(Last.args, j)
       /\ (Last.status = "error" /\ Last.error.kind = "InvalidArgument")
              => PlainAfterNamed(Last.args, Last.error.position + 1)

C10_Witness ==
    /\ PreStructured
    /\ Last.status = "error"
    /\ Last.error.kind = "InvalidArgument"
    /\ Len(Last.args) = 3
    /\ Last.error.position = 2
    /\ Last.args[1].named

\* two NamedArguments with the same name at the (1-based) places i < j
SameName(args, i, j) ==
    /\ i \in 1..Len(args)
    /\ j \in 1..Len(args)
    /\ i < j
    /\ args[i].named
    /\ args[j].named
    /\ args[i].name = args[j].name

IsDuplicateError(call) ==
    call.status = "error" /\ call.error.kind = "DuplicateNamedArgument"

\* C11 as stated: for a positional/named template, whenever the NamedArguments
\* at positions i < j have the same name, format fails with a
\* duplicate-named-argument error that cites i and j.
C11_DuplicateNames ==
    PreStructured
    => \A i, j \in 1..Len(Last.args) :
           SameName(Last.args, i, j)
           => /\ IsDuplicateError(Last)
              /\ Last.error.first = i - 1
              /\ Last.error.position = j - 1

\* C11 as amended: when no plain argument follows a NamedArgument, format
\* fails with a duplicate-named-argument error if and only if two
\* NamedArguments have the same name, and the error cites the positions
\* i < j of the first such pair (smallest i, then smallest j).
C11_FirstDuplicatePair ==
    (/\ PreStructured
     /\ \A j \in 1..Len(Last.args) : ~PlainAfterNamed(Last.args, j))
    => /\ IsDuplicateError(Last)
           <=> \E i, j \in 1..Len(Last.args) : SameName(Last.args, i, j)
       /\ IsDuplicateError(Last)
           => /\ SameName(Last.args, Last.error.first + 1, Last.error.position + 1)
              /\ \A i, j \in 1..Len(Last.args) :
                     SameName(Last.args, i, j)
                     => \/ Last.error.first + 1 < i
                        \/ /\ Last.error.first + 1 = i
                           /\ Last.error.position + 1 <= j

\* a duplicate whose two arguments are not next to each other
C11_Witness ==
    /\ PreStructured
    /\ IsDuplicateError(Last)
    /\ Last.error.first = 0
    /\ Last.error.position = 2
    /\ Last.args[2].named

\* a placeholder of the call's template that no argument of the call is for
Unresolved(i) ==
    /\ i \in 1..Len(Pre.m_placeholders)
    /\ Intended(Pre.m_placeholders, Last.args, i) = 0

\* C12 as stated: format fails when a placeholder cannot be resolved, with
\* MissingPositionalArgument for a position not below the number of plain
\* arguments and with MissingNamedArgument for a name no NamedArgument has.
C12_MissingArgument ==
    (PreStructured /\ WellShaped(Last.args))
    => \A i \in 1..Len(Pre.m_placeholders) :
           Unresolved(i)
           => /\ Last.status = "error"
              /\ Last.error.kind =
                     (IF IdentifierOf(Pre.m_placeholders[i]).type = "Position"
                      THEN "MissingPositionalArgument"
                      ELSE "MissingNamedArgument")

\* C12 as amended: a placeholder that cannot be resolved does not fail the
\* call: with arguments that pass the argument checks and can be formatted
\* under the template's specifications, format succeeds also when a
\* positional placeholder references a position not below the number of
\* plain arguments or a named placeholder's name matches no NamedArgument.
C12_UnresolvedIsNoError ==
    (/\ PreStructured
     /\ WellShaped(Last.args)
     /\ AllFormattable(Last.args)
     /\ NoGroupSpecification(Pre.m_placeholders)
     /\ \E i \in 1..Len(Pre.m_placeholders) : Unresolved(i))
    => Last.status = "ok"

\* one call with arguments, a position and a name it has no argument for
C12_Witness ==
    /\ PreStructured
    /\ Last.status = "ok"
    /\ Last.args # << >>
    /\ WellShaped(Last.args)
    /\ \E i, k \in 1..Len(Pre.m_placeholders) :
           /\ Unresolved(i)
           /\ IdentifierOf(Pre.m_placeholders[i]).type = "Position"
           /\ Unresolved(k)
           /\ IdentifierOf(Pre.m_placeholders[k]).type = "Name"

\* C13: a call with more arguments than the template has placeholders left
\* (at least one left) formats every placeholder, ignores the surplus
\* arguments and reads or writes no placeholder outside the placeholder list.
C13_SurplusArguments ==
    (/\ Called
     /\ Pre.m_placeholders # << >>
     /\ Len(Last.args) > Len(Pre.m_placeholders)
     /\ WellShaped(Last.args)
     /\ \A k \in 1..Len(Last.args) : Last.args[k].kind = "to"
     /\ NoGroupSpecification(Pre.m_placeholders))
    => /\ ~Last.undefined
       /\ Last.status = "ok"
       /\ IsAutoNumbered(Pre)
              => /\ m_placeholders = << >>
                 /\ m_format = ExpectedText(Last.args)

\* C14: for a template without placeholders, format returns the template
\* text unchanged and leaves the template unchanged, whatever the number,
\* kind and order of the arguments.
C14_NoPlaceholders ==
    (Called /\ Constructed.m_placeholders = << >>)
    => /\ Last.status = "ok"
       /\ Last.parsed = 0
       /\ m_format = Constructed.m_format
       /\ m_placeholders = << >>

\* literal text formatted with a plain argument after a NamedArgument and
\* with an argument that has no format function
C14_Witness ==
    /\ Called
    /\ Constructed.m_placeholders = << >>
    /\ Constructed.m_format # << >>
    /\ \E j \in 1..Len(Last.args) : PlainAfterNamed(Last.args, j)
    /\ \E j \in 1..Len(Last.args) : Last.args[j].kind = "none"

\* a call that has an argument for every placeholder of the template
EveryPlaceholderFormatted(call) ==
    /\ call.status = "ok"
    /\ call.pre_placeholders # << >>
    /\ \A i \in 1..Len(call.pre_placeholders) :
           Intended(call.pre_placeholders, call.args, i) # 0

\* C15: after a format call in which every placeholder was formatted the
\* placeholder list is empty, and a later format call, with any arguments,
\* returns the same text and changes nothing.
C15_FullyFormatted ==
    (Called /\ EveryPlaceholderFormatted(calls[1]))
    => /\ m_placeholders = << >>
       /\ Len(calls) = 2
              => /\ calls[2].pre_placeholders = << >>
                 /\ calls[2].status = "ok"
                 /\ calls[2].parsed = 0
                 /\ m_format = calls[2].pre_format

\* a second call, with arguments the checks would reject, on a template the
\* first call formatted
C15_Witness ==
    /\ Len(calls) = 2
    /\ EveryPlaceholderFormatted(calls[1])
    /\ calls[1].pre_format # << >>
    /\ Len(m_format) > Len(calls[1].pre_format)
    /\ Len(calls[2].args) = 2
    /\ calls[2].args[1].named
    /\ ~calls[2].args[2].named

\* the specification indices of the placeholders that stand for argument a
SpecificationsFor(placeholders, args, a) ==
    { placeholders[i].specification_index :
          i \in { k \in 1..Len(placeholders) : Intended(placeholders, args, k) = a } }

\* C16: in a positional/named call, the number of Formatters constructed for
\* an argument is the number of distinct specification indices among the
\* placeholders resolved to that argument.
C16_FormatterPerSpecification ==
    (/\ PreStructured
     /\ Last.status = "ok"
     /\ Last.args # << >>
     /\ WellShaped(Last.args))
    => \A a \in 1..Len(Last.args) :
           /\ Len(Last.formatters[a])
                  = Cardinality(SpecificationsFor(Pre.m_placeholders, Last.args, a))
           /\ \A k, m \in 1..Len(Last.formatters[a]) :
                  k # m => Last.formatters[a][k].specification_index
                               # Last.formatters[a][m].specification_index

\* What holds of the code: the Formatters are all constructed for the first
\* argument, one per specification index of the template, each parsed once.
C16_AllForFirstArgument ==
    (/\ PreStructured
     /\ Last.status = "ok"
     /\ Last.args # << >>)
    => /\ Len(Last.formatters[1])
              = Cardinality({ Pre.m_placeholders[i].specification_index :
                                  i \in 1..Len(Pre.m_placeholders) })
       /\ Last.parsed = Len(Last.formatters[1])
       /\ \A a \in 2..Len(Last.args) : Last.formatters[a] = << >>

\* the names of the access that the specification has a specifier for
Present == { i \in 1..Len(access.names) :
                 \E k \in 1..Len(m_specifiers) :
                     icasecmp(m_specifiers[k].name, access.names[i]) }

\* C17: one_of(name, aliases...) is decided by how many of the given names
\* are present in the specification, for every number of names: none gives
\* NoSpecifierFound, two or more give AmbiguousSpecifier, exactly one gives
\* the specifier of that name.
C17_OneOf ==
    access.names # << >>
    => /\ Present = {} => access.outcome = Failed("NoSpecifierFound")
       /\ Cardinality(Present) >= 2 => access.outcome = Failed("AmbiguousSpecifier")
       /\ Cardinality(Present) = 1
              => /\ access.outcome.status = "ok"
                 /\ \E i \in Present :
                        icasecmp(access.outcome.specifier.name, access.names[i])

\* What holds of the code: the claim for every number of names but two
C17_NotTwoNames == Len(access.names) # 2 => C17_OneOf

\* an integer formatted in binary or hexadecimal by a build whose conversions
\* are all defined
WrittenInBase ==
    /\ int_pc = "written"
    /\ int_formatter.representation \in {"Binary", "Hexadecimal"}
    /\ ~(int_value = 0 /\ int_indefinite)

\* C18: format_to writes exactly reserve(value) characters, all inside the
\* context of that length: binary and hexadecimal output with any
\* combination of digits, use_separator_character, group_size,
\* use_base_prefix and width never writes more than reserve returned.
C18_WritesWhatItReserved ==
    WrittenInBase
    => /\ Len(int_context.written) + int_context.filled = int_length.length
       /\ Len(int_context.written) <= int_length.length

\* the decimal text of an integer
RECURSIVE DecimalDigits(_)
DecimalDigits(n) ==
    (IF n >= 10 THEN DecimalDigits(n \div 10) ELSE << >>)
        \o <<<<"0", "1", "2", "3", "4", "5", "6", "7", "8", "9">>[(n % 10) + 1]>>

DecimalText(n) == IF n < 0 THEN <<"-">> \o DecimalDigits(0 - n) ELSE DecimalDigits(n)

\* C19: with the default specification an integer is rendered in decimal:
\* reserve returns the length of the decimal text and format_to writes it.
C19_DefaultIsDecimal ==
    (int_formatter = DefaultFormatter /\ int_pc \in {"reserved", "written"})
    => /\ int_length.length = Len(DecimalText(int_value))
       /\ int_pc = "written" => int_context.written = DecimalText(int_value)

\* the digits of the value in base 2 or 16: the two's complement over the
\* full width for a negative value, no leading zeros otherwise
RECURSIVE DigitsOf(_, _, _)
DigitsOf(n, base, count) ==
    IF count = 0 THEN << >>
    ELSE DigitsOf(n \div base, base, count - 1)
             \o <<<<"0", "1", "2", "3", "4", "5", "6", "7", "8", "9",
                    "a", "b", "c", "d", "e", "f">>[(n % base) + 1]>>

RECURSIVE DigitCount(_, _)
DigitCount(n, base) == IF n < base THEN 1 ELSE 1 + DigitCount(n \div base, base)

NaturalDigits(n, base) ==
    IF n < 0
    THEN DigitsOf(n + Pow2(Bits), base, IF base = 2 THEN Bits ELSE Bits \div 4)
    ELSE DigitsOf(n, base, DigitCount(n, base))

\* d digits of the value: the d least significant ones, or all of them
\* behind padding
ExpectedDigits(n, base, d) ==
    LET natural == NaturalDigits(n, base)
        pad == IF n >= 0 THEN "0" ELSE IF base = 2 THEN "1" ELSE "F"
    IN IF d <= Len(natural)
       THEN SubSeq(natural, Len(natural) - d + 1, Len(natural))
       ELSE Repeat(pad, d - Len(natural)) \o natural

\* C20: binary and hexadecimal output with the digits specifier d has exactly
\* d digits: the d least significant ones when the value has more, the
\* value's digits left-padded with 0 (non-negative) or 1 / F (negative) when
\* it has fewer.
C20_Digits ==
    (/\ WrittenInBase
     /\ int_formatter.digits # 0
     /\ ~UseSeparator(int_formatter))
    => LET skipped == IF int_formatter.use_base_prefix THEN 2 ELSE 0
       IN SubSeq(int_context.written, skipped + 1, Len(int_context.written))
              = ExpectedDigits(int_value,
                               IF int_formatter.representation = "Binary"
                               THEN 2 ELSE 16,
                               int_formatter.digits)

\* What holds of the code: the claim for binary output
C20_BinaryDigits == int_formatter.representation = "Binary" => C20_Digits

\* the characters written behind the base prefix, separators left out
StripSeparators(text) == SelectSeq(text, LAMBDA c : c # "'")

DigitsWritten ==
    StripSeparators(SubSeq(int_context.written,
                           (IF int_formatter.use_base_prefix THEN 2 ELSE 0) + 1,
                           Len(int_context.written)))

\* C21: a negative integer formatted in binary or hexadecimal without a
\* digits specifier is rendered as its two's-complement bit pattern over the
\* full width of its type: Bits digits in binary, Bits / 4 in hexadecimal.
C21_TwosComplement ==
    (/\ int_pc = "written"
     /\ int_formatter.representation \in {"Binary", "Hexadecimal"}
     /\ int_formatter.digits = 0
     /\ int_value < 0)
    => /\ Len(DigitsWritten)
              = (IF int_formatter.representation = "Binary" THEN Bits ELSE Bits \div 4)
       /\ DigitsWritten
              = NaturalDigits(int_value,
                              IF int_formatter.representation = "Binary"
                              THEN 2 ELSE 16)

\* -5 in binary
C21_Witness ==
    /\ int_pc = "written"
    /\ int_formatter.representation = "Binary"
    /\ int_formatter.digits = 0
    /\ ~int_formatter.use_base_prefix
    /\ int_value = 0 - 5
    /\ int_context.written = <<"1", "1", "1", "1", "1", "0", "1", "1">>

\* a Formatter<T> after its parse call
Parsed == fmt_pc \in {"parsed", "formatted"}

IsMap == fmt_type.kind = "UnorderedMap"

\* parse of a group without an indeterminate read
NoParseGarbage == [unsigned |-> 0, character |-> NUL]

\* the fields of an element Formatter configured by formatting group 'index',
\* the default fields when the specification has no such group
ConfiguredBy(type, index) ==
    IF index < size(fmt_spec)
    THEN Element_parse(type, get_formatting_group(fmt_spec, index),
                       NoParseGarbage).formatter
    ELSE ElementFields(type)

\* C22: the unordered-map Formatter's parse reads a group list as: group 0
\* configures the container, group 1 the key formatter, group 2 the value
\* formatter; an absent group leaves the formatter at its default.
C22_GroupsOfMap ==
    (Parsed /\ IsMap /\ fmt_spec.type = "FormattingGroupList")
    => /\ fmt_parsed.status = "ok"
       /\ fmt_parsed.key_formatter = ConfiguredBy(fmt_type.key, 1)
       /\ fmt_parsed.value_formatter = ConfiguredBy(fmt_type.value, 2)

\* What holds of the code: with two groups or more, group 0 configures the
\* key formatter and group 1 the value formatter; with fewer, none is read.
C22_KeyIsGroupZero ==
    (Parsed /\ IsMap /\ fmt_spec.type = "FormattingGroupList")
    => /\ fmt_parsed.status = "ok"
       /\ fmt_parsed.key_formatter
              = (IF size(fmt_spec) >= 2 THEN ConfiguredBy(fmt_type.key, 0)
                 ELSE ElementFields(fmt_type.key))
       /\ fmt_parsed.value_formatter
              = (IF size(fmt_spec) >= 2 THEN ConfiguredBy(fmt_type.value, 1)
                 ELSE ElementFields(fmt_type.value))

\* the quote a key or value of the type is written in
Quote(type) == IF type = "String" THEN <<"'">> ELSE << >>

\* the texts an element Formatter may write for an element
ElementTexts(type, formatter, element) ==
    { Element_format_to(type, formatter, element,
                        Element_reserve(type, formatter, element, g)) :
          g \in ReserveGarbage(type, formatter) }

\* the renderings 'key: value, key: value' of the elements from i on, a key
\* or value in quotes when its type is a string type
RECURSIVE QuotedElements(_)
QuotedElements(i) ==
    LET entries ==
            { Quote(fmt_type.key) \o k \o Quote(fmt_type.key) \o <<":", " ">>
                  \o Quote(fmt_type.value) \o v \o Quote(fmt_type.value) :
                  k \in ElementTexts(fmt_type.key, fmt_parsed.key_formatter,
                                     fmt_value[i].first),
                  v \in ElementTexts(fmt_type.value, fmt_parsed.value_formatter,
                                     fmt_value[i].second) }
    IN IF i = Len(fmt_value) THEN entries
       ELSE { e \o <<",", " ">> \o rest : e \in entries, rest \in QuotedElements(i + 1) }

\* C23: in the unordered-map Formatter's output a key or value is surrounded
\* by single quotes if and only if it is of a string type.
C23_QuotesOnlyStrings ==
    (fmt_pc = "formatted" /\ fmt_value # << >>)
    => \E elements \in QuotedElements(1) :
           fmt_output = <<"{", " ">> \o elements \o <<" ", "}">>

\* What holds of the code: the claim for maps from strings to strings
C23_StringMaps ==
    (fmt_type.key = "String" /\ fmt_type.value = "String")
    => C23_QuotesOnlyStrings

\* a specification of the shape the Formatter does not take
WrongShape ==
    IF IsMap
    THEN fmt_spec.type = "SpecifierList"
    ELSE fmt_spec.type = "FormattingGroupList"

\* C24: Formatter::parse fails with WrongSpecificationType on a specification
\* of the wrong shape: a group list given to a scalar Formatter, a flat
\* specifier list given to a composite Formatter.
C24_WrongShape ==
    (Parsed /\ WrongShape)
    => /\ fmt_parsed.status = "error"
       /\ fmt_parsed.error = "WrongSpecificationType"

\* What holds of the code: the claim for the scalar Formatters
C24_ScalarFormatters == ~IsMap => C24_WrongShape

\* the blocks of the parse function of a scalar Formatter
BlocksOf(kind) ==
    CASE kind = "Integer" -> IntegerBlocks
      [] kind = "FloatingPoint" -> FloatingPointBlocks
      [] kind = "String" -> StringBlocks

FieldsOf(kind) ==
    CASE kind = "Integer" -> IntegerFormatterFields
      [] kind = "FloatingPoint" -> FloatingPointFormatterFields
      [] kind = "String" -> StringFormatterFields

Names(block, name) == \E i \in 1..Len(block.names) : icasecmp(block.names[i], name)

\* a value the block does not take: a spelling it does not know, not a
\* number, not a single character
BadValue(block, value) ==
    LET v == trim(value)
    IN CASE block.category = "enum" ->
                \A k \in 1..Len(block.spellings) : ~icasecmp(v, block.spellings[k][1])
         [] block.category = "unsigned" ->
                v = << >> \/ \E i \in 1..Len(v) : ~IsDigit(v[i])
         [] block.category \in {"character", "separator"} -> Len(v) # 1

\* specifier k of the specification has a key the Formatter recognizes, a
\* value it does not take, and is the only one for its option
BadSpecifier(block, k) ==
    /\ Names(block, fmt_spec.specifiers[k].name)
    /\ BadValue(block, fmt_spec.specifiers[k].value)
    /\ \A m \in 1..Len(fmt_spec.specifiers) :
           m # k => ~Names(block, fmt_spec.specifiers[m].name)

\* C25: for the integer, floating-point and string Formatters, parse of a
\* flat specification in which a recognized key has an unrecognized,
\* malformed or empty value never fails and never reads outside the value:
\* it emits a warning and leaves that option at its default.
C25_BadValues ==
    (Parsed /\ ~IsMap /\ fmt_spec.type = "SpecifierList")
    => \A b \in 1..Len(BlocksOf(fmt_type.kind)), k \in 1..Len(fmt_spec.specifiers) :
           BadSpecifier(BlocksOf(fmt_type.kind)[b], k)
           => /\ fmt_parsed.status = "ok"
              /\ ~fmt_parsed.undefined
              /\ fmt_parsed.warnings >= 1
              /\ BlocksOf(fmt_type.kind)[b].field # ""
                     => fmt_parsed.formatter[BlocksOf(fmt_type.kind)[b].field]
                            = FieldsOf(fmt_type.kind)[BlocksOf(fmt_type.kind)[b].field]

\* What holds of the code: the claim for specifications without an empty
\* value and without the second name of an option that has two names
C25_ValuesNotEmpty ==
    (/\ \A k \in 1..Len(fmt_spec.specifiers) :
            /\ trim(fmt_spec.specifiers[k].value) # << >>
            /\ fmt_spec.specifiers[k].name # Text.groupsize)
    => C25_BadValues

\* C26: an argument whose type has only format (no reserve/format_to) is
\* still spliced: the text format returns stands at the placeholder; and the
\* performance advisory is emitted at most once in the call, however many
\* placeholders use such a type.
FormatOnlyUses ==
    { i \in 1..Len(Pre.m_placeholders) :
          /\ Intended(Pre.m_placeholders, Last.args, i) # 0
          /\ Last.args[Intended(Pre.m_placeholders, Last.args, i)].kind = "fmt" }

C26_FormatFallback ==
    (/\ PreAuto
     /\ Last.status = "ok"
     /\ ~Last.undefined
     /\ FormatOnlyUses # {})
    => /\ m_format = ExpectedText(Last.args)
       /\ Last.warnings <= 1

\* What the auto-numbered branch does: the text is spliced, and the advisory
\* is emitted once per placeholder that uses such a type.
C26_AdvisoryPerPlaceholder ==
    (/\ PreAuto
     /\ Last.status = "ok"
     /\ ~Last.undefined
     /\ FormatOnlyUses # {})
    => /\ m_format = ExpectedText(Last.args)
       /\ Last.warnings = Cardinality(FormatOnlyUses)

\* C27: at the end of every format call the placeholders the call formatted
\* are gone from the placeholder list, and the placeholders it did not format
\* remain, in the order they had before the call, each with formatted = false.
Unformatted(placeholders) == SelectSeq(placeholders, LAMBDA p : ~p.formatted)

SamePlaceholders(before, after) ==
    /\ Len(after) = Len(before)
    /\ \A i \in 1..Len(before) :
           /\ after[i].identifier_index = before[i].identifier_index
           /\ after[i].specification_index = before[i].specification_index

C27_Ended == Called /\ Last.status \in {"ok", "error"} /\ ~Last.undefined

C27_FormattedRemoved ==
    C27_Ended
    => /\ SamePlaceholders(Last.pre_placeholders, Last.processed)
       /\ m_placeholders = Unformatted(Last.processed)
       /\ \A i \in 1..Len(m_placeholders) : ~m_placeholders[i].formatted

\* What the code does: the erase runs at the end of a call that returns, so
\* the statement holds for a call that returns on a list no failed call has
\* left marked.
C27_RemovedOnReturn ==
    (/\ Called
     /\ Last.status = "ok"
     /\ Unformatted(Last.pre_placeholders) = Last.pre_placeholders)
    => C27_FormattedRemoved

\* C28: throughout the splice loop of a positional/named format call, the
\* span [start, start + length) cached by every Formatter that has been used
\* holds exactly the text the Formatter produced for its argument, although
\* later splices shift the buffer; so the text spliced for a repeated
\* reference with the same specification equals the text spliced for the first.
LoopStart == PositionalReady(Begin(Pre), m_identifiers, m_specifications, Last.args)

\* the call states of the splice loop: before the first iteration and after
\* each iteration that ran
RECURSIVE SpliceStates(_, _)
SpliceStates(st, i) ==
    IF i > Len(st.m_placeholders) \/ st.status # "ok" THEN <<st>>
    ELSE <<st>> \o SpliceStates(PositionalStep(st, Last.args, i), i + 1)

Produced(a, formatter) ==
    Rendered(Last.args[a], m_specifications[formatter.specification_index + 1])

SpanHolds(st) ==
    \A a \in 1..Len(st.formatters) :
        \A f \in 1..Len(st.formatters[a]) :
            initialized(st.formatters[a][f])
            => Substr(st.m_format, st.formatters[a][f].start,
                      st.formatters[a][f].length)
                   = Produced(a, st.formatters[a][f])

\* iteration k splices for a Formatter an earlier iteration has used
RepeatedReference(states, k) ==
    LET st == states[k]
        indices == st.placeholder_indices[k]
    IN /\ k < Len(states)
       /\ indices.argument_index < Len(Last.args)
       /\ Last.args[indices.argument_index + 1].kind # "none"
       /\ initialized(st.formatters[indices.argument_index + 1]
                                   [indices.formatter_index + 1])

SplicedAgain(states, k) ==
    LET st == states[k]
        indices == st.placeholder_indices[k]
        a == indices.argument_index + 1
        formatter == st.formatters[a][indices.formatter_index + 1]
    IN states[k + 1].m_format
           = Insert(st.m_format,
                    st.m_placeholders[k].position + st.inserted_placeholder_offset,
                    Produced(a, formatter))

InSpliceLoop ==
    /\ PreStructured
    /\ Last.args # << >>
    /\ WellShaped(Last.args)
    /\ LoopStart.status = "ok"

C28_CachedSpan ==
    InSpliceLoop
    => LET states == SpliceStates(LoopStart, 1)
       IN /\ \A k \in 1..Len(states) : SpanHolds(states[k])
          /\ \A k \in 1..(Len(states) - 1) :
                 RepeatedReference(states, k) => SplicedAgain(states, k)
          /\ m_format = states[Len(states)].m_format

\* {0}{1:width=2}{0}-like calls: a Formatter is used, another text is spliced
\* behind it, and the first Formatter is used again
C28_Witness ==
    /\ InSpliceLoop
    /\ Last.status = "ok"
    /\ Len(Pre.m_placeholders) = 3
    /\ RepeatedReference(SpliceStates(LoopStart, 1), 3)
    /\ ~RepeatedReference(SpliceStates(LoopStart, 1), 2)
    /\ Len(m_format) >= 4

\* C29: with use_separator_character enabled, binary and hexadecimal output
\* has a separator ' exactly between groups of group_size digits (default 4)
\* counted from the least-significant digit, over all digits written
\* including the padding digits of the digits specifier, with no separator
\* before the first digit; and as many separators are written as reserve
\* counted.
Grouping == IF int_formatter.group_size = 0 - 1 THEN 4 ELSE int_formatter.group_size

SeparatorsEnabled ==
    int_formatter.use_separator_character = "true" /\ Grouping # 0

\* the digits with a separator before every digit that has a multiple of
\* group_size digits from itself to the end, the first digit excepted
Grouped(digits, group_size) ==
    LET RECURSIVE From(_)
        From(i) ==
            IF i > Len(digits) THEN << >>
            ELSE (IF i > 1 /\ (Len(digits) - i + 1) % group_size = 0
                  THEN <<"'">> ELSE << >>)
                     \o <<digits[i]>> \o From(i + 1)
    IN From(1)

\* what was written behind the base prefix
WrittenBody ==
    SubSeq(int_context.written, (IF int_formatter.use_base_prefix THEN 3 ELSE 1),
           Len(int_context.written))

\* num_separator_characters of the reserve call
ReservedSeparators ==
    SeparatorCount(int_formatter,
                   ApplyDigits(NaturalCount(int_value, int_indefinite,
                                            IF int_formatter.representation = "Binary"
                                            THEN 1 ELSE 4),
                               int_formatter.digits).num_characters)

C29_Separators ==
    (WrittenInBase /\ SeparatorsEnabled)
    => /\ WrittenBody = Grouped(StripSeparators(WrittenBody), Grouping)
       /\ Len(WrittenBody) - Len(StripSeparators(WrittenBody)) = ReservedSeparators

\* What the code does: the separators are placed and counted from
\* num_characters alone, which is right when no padding digit is written and
\* the digits specifier does not cut the value.
C29_WithoutDigitsSpecifier == int_formatter.digits = 0 => C29_Separators

\* C30: after any sequence of successful format calls on a template the
\* positions of the remaining placeholders are non-decreasing in list order,
\* each is at most the length of the text buffer, and the buffer length is
\* the original length plus the total length of the text spliced so far.
AllSucceeded == \A c \in 1..Len(calls) : calls[c].status = "ok"

RECURSIVE TotalInserted(_)
TotalInserted(cs) ==
    IF cs = << >> THEN 0 ELSE Head(cs).inserted + TotalInserted(Tail(cs))

C30_PositionsAndLength ==
    (Called /\ AllSucceeded)
    => /\ \A i \in 1..(Len(m_placeholders) - 1) :
              m_placeholders[i].position <= m_placeholders[i + 1].position
       /\ \A i \in 1..Len(m_placeholders) :
              m_placeholders[i].position <= Len(m_format)
       /\ Len(m_format) = Len(FormatString(tmpl).m_format) + TotalInserted(calls)

\* two calls that each splice a text and leave a placeholder behind the texts
C30_Witness ==
    /\ Len(calls) = 2
    /\ AllSucceeded
    /\ calls[1].inserted > 0
    /\ calls[2].inserted > 0
    /\ m_placeholders # << >>
    /\ m_placeholders[1].position = calls[1].inserted + calls[2].inserted
    /\ calls[1].inserted # calls[2].inserted

====
